---- MODULE Spec2Model ----
(***************************************************************************)
(* A model of the AI calling backend (backend/app/ai_calling): the call    *)
(* session registry and its lifecycle callbacks (answer, audio stream,     *)
(* event), and the bulk dispatch layer with its retry loop and the global  *)
(* AI semaphore.  asyncio is cooperative: one action is the code that runs *)
(* between two suspension points (awaits) of one task.                     *)
(***************************************************************************)
EXTENDS Integers, Sequences, FiniteSets, TLC

\* ------------------------------------------------------------------ bounds
\* Requests (callbacks and stream connections) the provider makes in one run.
MaxTasks == 3
\* Utterances the segmenter emits in one run, over all streams.
MaxUtterances == 1
\* Borrowers of the bulk request.
MaxBorrowers == 3
\* The last evaluation day (day 0 is a Monday): every weekday occurs.
MaxDay == 6
\* Audio chunks of one stream.
MaxChunks == 3

\* ------------------------------------------------------- program constants
None == "None"
CallIds == {"c1", "c2"}
Languages == {"en-IN", "hi-IN", "ta-IN"}
Scripts == {"latin", "devanagari", "tamil"}
TaskIds == 1..(MaxTasks + 1)
DispatchIds == 1..MaxBorrowers
\* process_single_call: max_attempts = 3
max_attempts == 3
\* ai_semaphore = asyncio.Semaphore(2)
SemaphorePermits == 2

VARIABLES
    call_data,       \* service.call_data: call_uuid -> handler (an object id)
    handlers,        \* the ConversationHandler objects, by object id
    greeting_cache,  \* views.greeting_cache: call_uuid -> greeting audio
    call_sessions,   \* the call_sessions collection: the documents inserted
    borrower_updates,\* the borrowers collection: the updates applied, each
                     \* with the task that made it
    tasks,           \* the request tasks of the event loop
    nTasks,          \* requests started so far
    nUtterances,     \* utterances emitted so far
    budget,          \* the requests and utterances of this run
    dispatch,        \* the process_single_call tasks of the bulk request
    ai_semaphore,    \* views.ai_semaphore: its value and its waiters
    bulk,            \* trigger_bulk_calls: its progress and its response
    args,            \* the arguments of a call of the Outcome Resolver
    outcome,         \* what determine_report_outcomes returned for them
    schedule,        \* what calculate_follow_up_schedule returned for them
    audio_buffer,    \* the AudioBuffer of a stream
    clock,           \* time.time(), in milliseconds
    heard,           \* the chunks added to the AudioBuffer and what was returned
    stt,             \* the last call of transcribe_sarvam and what it did
    outbound         \* the last call of make_outbound_call and what it did

lifeVars == <<call_data, handlers, greeting_cache, call_sessions,
              borrower_updates, tasks, nTasks, nUtterances, budget>>

dispatchVars == <<dispatch, ai_semaphore, bulk>>

resolverVars == <<args, outcome, schedule>>

segmenterVars == <<audio_buffer, clock, heard>>

transcriberVars == <<stt>>

placerVars == <<outbound>>

unitVars == <<resolverVars, segmenterVars, transcriberVars, placerVars>>

vars == <<lifeVars, dispatchVars, unitVars>>

\* ------------------------------------------------------------ dictionaries
\* del d[k]
DictDel(d, k) == [x \in (DOMAIN d) \ {k} |-> d[x]]

\* d[k] = v
DictSet(d, k, v) == (k :> v) @@ d

\* ------------------------------------------------------ ConversationHandler
\* settings.LANGUAGE_CONFIG.get(preferred_language, LANGUAGE_CONFIG['en-IN'])["greeting"]
Greeting(preferred_language) ==
    IF preferred_language \in Languages
    THEN <<"greeting", preferred_language>>
    ELSE <<"greeting", "en-IN">>

\* ConversationHandler.__init__
NewHandler(call_uuid, user_id, preferred_language, borrower_id) ==
    [ call_uuid          |-> call_uuid,
      user_id            |-> user_id,
      borrower_id        |-> borrower_id,
      conversation       |-> << >>,
      is_active          |-> TRUE,
      preferred_language |-> preferred_language,
      current_language   |-> preferred_language,
      language_history   |-> << >> ]

\* ConversationHandler.add_entry: the entry carries the current language and
\* is appended at the end.
add_entry(handler, speaker, text) ==
    [handler EXCEPT !.conversation =
        Append(@, [speaker |-> speaker, text |-> text,
                   language |-> handler.current_language])]

\* A language update that records the switch and goes on in the old language.
update_language_record_only(handler, detected_language) ==
    IF detected_language # handler.current_language
    THEN [handler EXCEPT
            !.language_history = Append(@, [from |-> handler.current_language,
                                            to |-> detected_language])]
    ELSE handler

\* A language update that records every detection, a switch or not.
update_language_always(handler, detected_language) ==
    [handler EXCEPT
        !.language_history = Append(@, [from |-> handler.current_language,
                                        to |-> detected_language]),
        !.current_language = detected_language]

\* ConversationHandler.update_language
update_language(handler, detected_language) ==
    IF detected_language # handler.current_language
    THEN [handler EXCEPT
            !.language_history = Append(@, [from |-> handler.current_language,
                                            to |-> detected_language]),
            !.current_language = detected_language]
    ELSE handler

\* detect_language: Devanagari first, then Tamil, else English.
detect_language(script) ==
    IF script = "devanagari" THEN "hi-IN"
    ELSE IF script = "tamil" THEN "ta-IN"
    ELSE "en-IN"

\* ------------------------------------------------------- transcribe_sarvam
\* len(audio_data) < 2000: "Very short audio".
min_audio_bytes == 2000

\* max_retries of transcribe_sarvam.
max_retries == 2

\* What a request to the speech-to-text service may meet: a 200 with a
\* transcript in a script, a 200 without a transcript, another status, or
\* an exception (timeout, connection error).
SttResponses == {"latin", "devanagari", "empty", "status", "exception"}

\* The attempts of transcribe_sarvam from attempt number `attempt` (from 0)
\* on: a transcript ends the loop, an exception sleeps before another
\* attempt, and anything else goes to the next attempt at once.
RECURSIVE transcribe_attempts(_, _, _)
transcribe_attempts(attempt, responses, done) ==
    IF attempt >= max_retries
    THEN [done EXCEPT !.script = None]
    ELSE LET response == responses[attempt + 1]
             requested == [done EXCEPT !.requests = @ + 1]
         IN IF response \in Scripts
            THEN [requested EXCEPT !.script = response]
            ELSE IF response = "exception" /\ attempt < max_retries - 1
            THEN transcribe_attempts(attempt + 1, responses,
                                     [requested EXCEPT !.sleeps = @ + 1])
            ELSE transcribe_attempts(attempt + 1, responses, requested)

\* A transcription that asks the service about audio of any length.
transcribe_sarvam_any_length(audio_data, responses) ==
    transcribe_attempts(0, responses,
                        [audio_data |-> audio_data, script |-> None,
                         requests |-> 0, sleeps |-> 0])

\* transcribe_sarvam on audio of audio_data bytes: the script of the
\* transcript it returns (None without one), and the requests and sleeps it
\* made.
transcribe_sarvam(audio_data, responses) ==
    IF audio_data < min_audio_bytes
    THEN [audio_data |-> audio_data, script |-> None,
          requests |-> 0, sleeps |-> 0]
    ELSE transcribe_attempts(0, responses,
                             [audio_data |-> audio_data, script |-> None,
                              requests |-> 0, sleeps |-> 0])

\* --------------------------------------------------------- Outcome Resolver
\* A date is a day number; day 0 is Monday 2024-01-01, so that d % 7 is
\* datetime.weekday() (0 Monday .. 5 Saturday, 6 Sunday).
weekday(d) == d % 7

\* (category or "").lower(), on the category strings the model draws.
CategoryLower(category) ==
    CASE category = "Consistent"   -> "consistent"
      [] category = "Inconsistent" -> "inconsistent"
      [] category = "Overdue"      -> "overdue"
      [] category = "OVERDUE"      -> "overdue"
      [] category = "OVERDUE "     -> "overdue "
      [] category = "Regular"      -> "regular"
      [] category = None           -> ""
      [] OTHER                     -> category

\* word in category, for the lowered category strings above.
Mentions(lowered, word) ==
    \/ word = "inconsistent" /\ lowered \in {"inconsistent"}
    \/ word = "overdue" /\ lowered \in {"overdue", "overdue "}

\* A loop that collects the next days, Saturday and Sunday included.
RECURSIVE schedule_loop_with_weekends(_, _, _)
schedule_loop_with_weekends(current_date, count, required_dates) ==
    IF count >= required_dates THEN << >>
    ELSE <<current_date + 1>>
         \o schedule_loop_with_weekends(current_date + 1, count + 1, required_dates)

\* The while loop of calculate_follow_up_schedule: step one day at a time,
\* skip Saturday and Sunday, until `required_dates` dates are collected.
RECURSIVE schedule_loop(_, _, _)
schedule_loop(current_date, count, required_dates) ==
    IF count >= required_dates THEN << >>
    ELSE LET next_date == current_date + 1
         IN IF weekday(next_date) >= 5
            THEN schedule_loop(next_date, count, required_dates)
            ELSE <<next_date>> \o schedule_loop(next_date, count + 1, required_dates)

\* A schedule whose default branch starts from today.
calculate_follow_up_schedule_from_today(category, today) ==
    LET lowered == CategoryLower(category)
    IN IF Mentions(lowered, "inconsistent")
       THEN [dates |-> schedule_loop(today, 0, 3), desc |-> "3 calls/week"]
       ELSE IF Mentions(lowered, "overdue")
       THEN [dates |-> schedule_loop(today, 0, 7), desc |-> "Daily (Business Days)"]
       ELSE [dates |-> schedule_loop(today, 0, 1), desc |-> "1 call/week"]

\* A schedule whose default branch adds seven days before the loop adds one.
calculate_follow_up_schedule_eight_days(category, today) ==
    LET lowered == CategoryLower(category)
    IN IF Mentions(lowered, "inconsistent")
       THEN [dates |-> schedule_loop(today, 0, 3), desc |-> "3 calls/week"]
       ELSE IF Mentions(lowered, "overdue")
       THEN [dates |-> schedule_loop(today, 0, 7), desc |-> "Daily (Business Days)"]
       ELSE [dates |-> schedule_loop(today + 7, 0, 1), desc |-> "1 call/week"]

\* calculate_follow_up_schedule, with datetime.now() as `today`.
calculate_follow_up_schedule(category, today) ==
    LET lowered == CategoryLower(category)
    IN IF Mentions(lowered, "inconsistent")
       THEN [dates |-> schedule_loop(today, 0, 3), desc |-> "3 calls/week"]
       ELSE IF Mentions(lowered, "overdue")
       THEN [dates |-> schedule_loop(today, 0, 7), desc |-> "Daily (Business Days)"]
       ELSE [dates |-> schedule_loop(today + 6, 0, 1), desc |-> "1 call/week"]

\* (intent or "No Response").strip(), on the intent strings the model draws.
IntentStrip(intent) ==
    CASE intent = None   -> "No Response"
      [] intent = ""     -> "No Response"
      [] intent = "Paid " -> "Paid"
      [] OTHER           -> intent

\* (category or "Consistent").strip()
CategoryStrip(category) ==
    CASE category = None       -> "Consistent"
      [] category = ""         -> "Consistent"
      [] category = "OVERDUE " -> "OVERDUE"
      [] OTHER                 -> category

\* payment_date.lower(), on the date strings the model draws.
DateLower(payment_date) ==
    CASE payment_date = "NULL" -> "null"
      [] payment_date = "Null" -> "null"
      [] OTHER                 -> payment_date

\* A test that takes every non-empty string for a date, "null" included.
payment_date_given_any_text(payment_date) == payment_date \notin {None, ""}

\* A resolver that never takes the committed date.
payment_date_given_never(payment_date) == FALSE

\* payment_date and payment_date.lower() != "null"
payment_date_given(payment_date) ==
    payment_date \notin {None, ""} /\ DateLower(payment_date) # "null"

\* A retry on the next calendar day.
next_business_day_no_skip(today) == today + 1

\* The follow-up of a mid-call hangup: tomorrow, or the Monday after it when
\* tomorrow is a Saturday or a Sunday.
next_business_day(today) ==
    LET next_day == today + 1
    IN IF weekday(next_day) >= 5
       THEN next_day + (7 - weekday(next_day))
       ELSE next_day

escalation_intents ==
    {"Paid", "Dispute", "No Response", "Abusive Language",
     "Threatening Language", "Stop Calling"}

\* A follow_up_date is a string: the committed date as given, or the dates of
\* a schedule joined by ", ".
DateText(text) == [kind |-> "text", text |-> text]
DateList(days) == [kind |-> "dates", days |-> days]

NoEmail == [present |-> FALSE]

\* One template for every escalation intent.
EscalationEmail_generic(intent, borrower_name, borrower_id) ==
    [ present |-> TRUE, to |-> "Area Manager",
      subject |-> <<"Escalation: ", borrower_name>>,
      body |-> <<"Escalation", borrower_name, borrower_id>> ]

\* An escalation that drafts no email.
EscalationEmail_missing(intent, borrower_name, borrower_id) == NoEmail

\* The email draft of an escalation intent: subject and body templates.
EscalationEmail(intent, borrower_name, borrower_id) ==
    [ present |-> TRUE, to |-> "Area Manager",
      subject |-> <<CASE intent = "Paid" -> "Payment Verification Required: "
                      [] intent = "Dispute" -> "Payment Dispute: "
                      [] intent = "No Response" -> "No Response Escalation: "
                      [] intent = "Abusive Language" -> "Alert: Abusive Language - "
                      [] intent = "Threatening Language" -> "Security Alert: "
                      [] intent = "Stop Calling" -> "DNC Request: ",
                    borrower_name>>,
      body |-> <<intent, borrower_name, borrower_id>> ]

\* next_step_summary of an escalation intent.
EscalationSummary(intent, borrower_name) ==
    CASE intent = "Paid" -> <<"claims payment made. Please verify.", borrower_name>>
      [] intent = "Dispute" -> <<"Borrower is disputing the loan payment. Escalating for manual investigation.">>
      [] intent = "No Response" -> <<"No clear response from borrower. Escalating for manual follow-up.">>
      [] intent = "Abusive Language" -> <<"Borrower used abusive language. Escalating for manual process.">>
      [] intent = "Threatening Language" -> <<"Borrower used threatening language. Escalating for manual process.">>
      [] intent = "Stop Calling" -> <<"Borrower requested to stop calls. Escalating for manual process.">>

MidCallSummary ==
    <<"The borrower hung up mid-sentence. System scheduled a follow-up retry for the next business day.">>

\* determine_report_outcomes, with datetime.now() as `today`.
determine_report_outcomes(intent0, payment_date, category0, borrower_name, borrower_id, is_mid_call, today) ==
    LET intent   == IntentStrip(intent0)
        category == CategoryStrip(category0)
        has_date == payment_date_given(payment_date)
        next_day == next_business_day(today)
        sched    == calculate_follow_up_schedule(category, today)
        follow_up_date ==
            IF is_mid_call THEN DateList(<<next_day>>)
            ELSE IF has_date THEN DateText(payment_date)
            ELSE DateList(sched.dates)
        call_frequency ==
            IF is_mid_call THEN "1 call (Retry)"
            ELSE IF has_date THEN "1 call (Verify)"
            ELSE sched.desc
        payment_confirmation ==
            IF ~is_mid_call /\ has_date THEN payment_date ELSE intent
        summary1 == IF is_mid_call THEN MidCallSummary ELSE << >>
    IN [ payment_confirmation |-> payment_confirmation,
         follow_up_date |-> follow_up_date,
         call_frequency |-> call_frequency,
         require_manual_process |-> intent \in escalation_intents,
         email_to_manager_preview |->
            IF intent \in escalation_intents
            THEN EscalationEmail(intent, borrower_name, borrower_id)
            ELSE NoEmail,
         next_step_summary |->
            IF intent \in escalation_intents
            THEN EscalationSummary(intent, borrower_name)
            ELSE IF intent \in {"Will Pay", "Needs Extension"}
            THEN IF payment_date \notin {None, ""}
                 THEN <<"Borrower committed to pay/extend until", payment_date>>
                 ELSE <<"Borrower committed to. Follow-up scheduled.", intent>>
            ELSE summary1 ]

\* ------------------------------------------------------------------- tasks
IdleTask == [kind |-> "idle", pc |-> "idle", call_uuid |-> None, h |-> 0,
             loc |-> << >>]

\* The next request of the provider gets the next task of the event loop.
IsNext(t) == t = nTasks + 1 /\ t <= budget.requests

SetTask(t, task) == tasks' = [tasks EXCEPT ![t] = task]

\* ------------------------------------------------------ the bulk request
\* last_res before the first attempt: "All attempts failed after 3 tries".
NoResult == [success |-> FALSE, mid_call |-> FALSE, outcomes |-> << >>]

IdleDispatch ==
    [pc |-> "idle", NO |-> 0, intent |-> None, use_dummy_data |-> TRUE,
     attempt |-> 0, log |-> << >>, last_res |-> NoResult,
     ai_analysis |-> [present |-> FALSE], result |-> << >>]

InitDispatch ==
    /\ dispatch = [d \in DispatchIds |-> IdleDispatch]
    /\ ai_semaphore = [value |-> SemaphorePermits, waiters |-> << >>]
    /\ bulk = [status |-> "idle", total_requests |-> 0,
               successful_calls |-> 0, failed_calls |-> 0, results |-> << >>]

\* No call of the Outcome Resolver, no stream of audio.
NoArgs == [intent |-> None, payment_date |-> None, category |-> None,
           borrower_name |-> "Borrower", borrower_id |-> "",
           is_mid_call |-> FALSE, today |-> 0]

NewAudioBuffer ==
    [buffer |-> 0, silence_start |-> << >>, speech_detected |-> FALSE]

InitUnits ==
    /\ args = NoArgs
    /\ outcome = << >>
    /\ schedule = << >>
    /\ audio_buffer = NewAudioBuffer
    /\ clock = 0
    /\ heard = << >>
    /\ stt = << >>
    /\ outbound = << >>

Init ==
    /\ InitDispatch
    /\ InitUnits
    /\ call_data = << >>
    /\ handlers = << >>
    /\ greeting_cache = << >>
    /\ call_sessions = {}
    /\ borrower_updates = {}
    /\ tasks = [t \in TaskIds |-> IdleTask]
    /\ nTasks = 0
    /\ nUtterances = 0
    /\ budget = [requests |-> MaxTasks, utterances |-> MaxUtterances]

\* ---------------------------------------------------------- answer_webhook
\* The data of an answer callback: the provider calls the answer_url that
\* make_outbound_call built for the call, so the language, the user and the
\* borrower are those of the call, also when the callback is repeated.
AnswerData(call_uuid) ==
    IF call_uuid = "c1"
    THEN [uuid |-> call_uuid, preferred_language |-> "en-IN",
          user_id |-> "u1", borrower_id |-> "B1"]
    ELSE [uuid |-> call_uuid, preferred_language |-> "hi-IN",
          user_id |-> "u1", borrower_id |-> None]

\* answer_webhook up to the await of the greeting synthesis: the handler is
\* created, registered under the call_uuid (whatever was registered there)
\* and given the greeting as its first entry.
answer_webhook(t, data) ==
    /\ IsNext(t)
    /\ LET handler == add_entry(
                        NewHandler(data.uuid, data.user_id,
                                   data.preferred_language, data.borrower_id),
                        "AI", Greeting(data.preferred_language))
       IN /\ handlers' = DictSet(handlers, t, handler)
          /\ call_data' = DictSet(call_data, data.uuid, t)
          /\ SetTask(t, [kind |-> "answer", pc |-> "synthesize",
                         call_uuid |-> data.uuid, h |-> t,
                         loc |-> [preferred_language |-> data.preferred_language]])
    /\ nTasks' = t
    /\ UNCHANGED <<greeting_cache, call_sessions, borrower_updates, nUtterances, budget, dispatchVars, unitVars>>

\* synthesize_sarvam on success: the audio of a text in a language.
Audio(text, language) == <<"audio", text, language>>

\* answer_webhook from the return of synthesize_sarvam: the audio, if any, is
\* cached under the call_uuid and the NCCO is returned.
answer_synthesized(t, synthesized) ==
    /\ tasks[t].kind = "answer" /\ tasks[t].pc = "synthesize"
    /\ LET preferred_language == tasks[t].loc.preferred_language
           greeting_audio ==
             IF synthesized
             THEN Audio(Greeting(preferred_language), preferred_language)
             ELSE None
       IN greeting_cache' =
            IF greeting_audio # None
            THEN DictSet(greeting_cache, tasks[t].call_uuid, greeting_audio)
            ELSE greeting_cache
    /\ SetTask(t, [tasks[t] EXCEPT !.pc = "done"])
    /\ UNCHANGED <<call_data, handlers, call_sessions, borrower_updates,
                   nTasks, nUtterances, budget, dispatchVars, unitVars>>

\* ------------------------------------------------------- make_outbound_call
\* normalize_language, on the language strings the model draws.
normalize_language(language) ==
    CASE language \in {"", None}        -> "en-IN"
      [] language \in {"hi-IN", "Hindi"} -> "hi-IN"
      [] language \in {"ta-IN", "Tamil"} -> "ta-IN"
      [] language \in {"en-IN", "EN"}    -> "en-IN"
      [] OTHER                           -> language

\* if to_number.startswith('+'): to_number = to_number[1:]
StripPlus(to_number) ==
    CASE to_number = "+919000000001" -> "919000000001"
      [] OTHER                       -> to_number

\* The query of the answer_url: preferred_language and user_id, and
\* borrower_id when it is given.
answer_url(user_id, language, borrower_id) ==
    LET query == [preferred_language |-> language, user_id |-> user_id]
    IN IF borrower_id \notin {None, ""}
       THEN DictSet(query, "borrower_id", borrower_id)
       ELSE query

\* make_outbound_call(user_id, to_number, language="en-IN", borrower_id=None):
\* without a voice client it fails at once; else it asks the provider to
\* create the call, which returns the uuid of the call or raises.
make_outbound_call(user_id, to_number, language, borrower_id, voice, created) ==
    IF ~voice
    THEN [create_call |-> << >>,
          res |-> [success |-> FALSE, call_uuid |-> None]]
    ELSE LET request == [to |-> StripPlus(to_number),
                         answer_url |-> answer_url(user_id, language, borrower_id)]
         IN [create_call |-> <<request>>,
             res |-> IF created
                     THEN [success |-> TRUE, call_uuid |-> "c1"]
                     ELSE [success |-> FALSE, call_uuid |-> None]]

\* make_single_call in real mode: the positional arguments of
\* make_outbound_call are the number, the language and the borrower_id of the
\* request; a failure is answered with HTTP 500.
make_single_call(request, user_id, voice, created) ==
    /\ outbound = << >>
    /\ LET lang == normalize_language(request.language)
           call == make_outbound_call(request.to_number, lang,
                                      request.borrower_id, None, voice, created)
       IN outbound' = <<[site |-> "make_call", user_id |-> user_id,
                         to_number |-> request.to_number, language |-> lang,
                         borrower_id |-> request.borrower_id,
                         create_call |-> call.create_call, res |-> call.res,
                         status_code |-> IF call.res.success THEN 200 ELSE 500]>>
    /\ UNCHANGED <<lifeVars, dispatchVars, resolverVars, segmenterVars,
                   transcriberVars>>

\* The call of an attempt of process_single_call in real mode, for a
\* borrower of a bulk request: the positional arguments are the cell1 of the
\* borrower, the normalized language and the NO of the borrower.
real_call_attempt(borrower, user_id, voice, created) ==
    /\ outbound = << >>
    /\ LET normalized_language == normalize_language(borrower.preferred_language)
           call == make_outbound_call(borrower.cell1, normalized_language,
                                      borrower.NO, None, voice, created)
       IN outbound' = <<[site |-> "trigger_calls", user_id |-> user_id,
                         to_number |-> borrower.cell1,
                         language |-> normalized_language,
                         borrower_id |-> borrower.NO,
                         create_call |-> call.create_call, res |-> call.res,
                         status_code |-> 200]>>
    /\ UNCHANGED <<lifeVars, dispatchVars, resolverVars, segmenterVars,
                   transcriberVars>>

\* dict(request.query_params) of the answer callback of a call: the query of
\* its answer_url and the uuid the provider adds; data.get of each key.
QueryData(query, call_uuid) ==
    [uuid |-> call_uuid,
     preferred_language |-> IF "preferred_language" \in DOMAIN query
                            THEN query.preferred_language ELSE "en-IN",
     user_id |-> IF "user_id" \in DOMAIN query THEN query.user_id ELSE None,
     borrower_id |-> IF "borrower_id" \in DOMAIN query
                     THEN query.borrower_id ELSE None]

\* The answer callback of the call that was placed.
answer_placed(t) ==
    /\ outbound # << >> /\ outbound[1].res.success
    /\ answer_webhook(t, QueryData(outbound[1].create_call[1].answer_url,
                                   outbound[1].res.call_uuid))

AnswerStep(calls) ==
    \/ \E t \in TaskIds, call_uuid \in calls :
         answer_webhook(t, AnswerData(call_uuid))
    \/ \E t \in TaskIds, synthesized \in BOOLEAN :
         answer_synthesized(t, synthesized)

\* ----------------------------------------- event_webhook, save_transcript
\* ai_analysis is None when the analysis failed.
NoAnalysis == [present |-> FALSE]

\* save_transcript's analysis of a conversation of at most one entry.
DefaultAnalysis ==
    [present |-> TRUE, intent |-> "No Response", payment_date |-> None,
     mid_call |-> FALSE]

\* What analyze_conversation_with_groq may return.
AnalysisResults ==
    { NoAnalysis,
      [present |-> TRUE, intent |-> "Will Pay", payment_date |-> "2024-03-01",
       mid_call |-> FALSE] }

\* What get_borrower_by_no may return: no record, or the borrower's record.
NoBorrower == [present |-> FALSE]
BorrowerResults ==
    { NoBorrower,
      [present |-> TRUE, Payment_Category |-> "Overdue", BORROWER |-> "Asha"] }

\* datetime.now() when an outcome is computed: a Friday.
Today == {4}

EventStatuses == {"completed", "answered", None}

\* A cleanup that empties the greeting cache.
event_cleanup_clear_cache(t, loc) ==
    LET call_uuid == tasks[t].call_uuid
    IN IF call_uuid \in DOMAIN call_data
       THEN /\ call_data' = DictDel(call_data, call_uuid)
            /\ greeting_cache' = << >>
            /\ SetTask(t, [tasks[t] EXCEPT !.pc = "done",
                              !.loc = [loc EXCEPT !.removed = TRUE,
                                                  !.response = "{}"]])
       ELSE /\ UNCHANGED <<call_data, greeting_cache>>
            /\ SetTask(t, [tasks[t] EXCEPT !.pc = "raised", !.loc = loc])

\* The end of event_webhook, after save_transcript returned: the session and
\* its greeting are deleted; del call_data[call_uuid] raises KeyError when the
\* key is no longer there.
event_cleanup(t, loc) ==
    LET call_uuid == tasks[t].call_uuid
    IN IF call_uuid \in DOMAIN call_data
       THEN /\ call_data' = DictDel(call_data, call_uuid)
            /\ greeting_cache' =
                 IF call_uuid \in DOMAIN greeting_cache
                 THEN DictDel(greeting_cache, call_uuid)
                 ELSE greeting_cache
            /\ SetTask(t, [tasks[t] EXCEPT !.pc = "done",
                              !.loc = [loc EXCEPT !.removed = TRUE,
                                                  !.response = "{}"]])
       ELSE /\ UNCHANGED <<call_data, greeting_cache>>
            /\ SetTask(t, [tasks[t] EXCEPT !.pc = "raised", !.loc = loc])

\* A finalization that does not look the call up in the registry.
ShouldFinalize_unchecked(status, call_uuid) == status = "completed"

\* A condition that finalizes on any event of a registered call.
ShouldFinalize_any_status(status, call_uuid) == call_uuid \in DOMAIN call_data

\* The condition of event_webhook's finalization.
ShouldFinalize(status, call_uuid) ==
    status = "completed" /\ call_uuid \in DOMAIN call_data

\* event_webhook up to its first await: a 'completed' event of a registered
\* call marks the handler inactive and starts save_transcript, which analyses
\* a conversation of more than one entry; any other event is acknowledged
\* with the empty JSON object.  (call_data[call_uuid] raises KeyError on a
\* missing key.)
event_webhook(t, status, call_uuid) ==
    /\ IsNext(t)
    /\ nTasks' = t
    /\ IF ~ShouldFinalize(status, call_uuid)
       THEN /\ SetTask(t, [kind |-> "event", pc |-> "done",
                           call_uuid |-> call_uuid, h |-> 0,
                           loc |-> [status |-> status, removed |-> FALSE,
                                    response |-> "{}"]])
            /\ UNCHANGED handlers
       ELSE IF call_uuid \notin DOMAIN call_data
       THEN /\ SetTask(t, [kind |-> "event", pc |-> "raised",
                           call_uuid |-> call_uuid, h |-> 0,
                           loc |-> [status |-> status, removed |-> FALSE,
                                    response |-> None]])
            /\ UNCHANGED handlers
       ELSE LET h == call_data[call_uuid]
                conversation == handlers[h].conversation
                loc == [status |-> status, analysed |-> conversation,
                        ai_analysis |-> DefaultAnalysis,
                        conversation_at_call |-> conversation,
                        outcomes |-> << >>, removed |-> FALSE,
                        response |-> None]
            IN /\ handlers' = [handlers EXCEPT ![h].is_active = FALSE]
               /\ SetTask(t, [kind |-> "event",
                              pc |-> IF Len(conversation) > 1
                                     THEN "analyze" ELSE "persist",
                              call_uuid |-> call_uuid, h |-> h, loc |-> loc])
    /\ UNCHANGED <<call_data, greeting_cache, call_sessions, borrower_updates,
                   nUtterances, budget, dispatchVars, unitVars>>

\* save_transcript from the return of analyze_conversation_with_groq: the
\* transcript_data refers to the conversation and create_call_session is
\* called.
save_transcript_analysed(t, ai_analysis) ==
    /\ tasks[t].kind = "event" /\ tasks[t].pc = "analyze"
    /\ SetTask(t, [tasks[t] EXCEPT !.pc = "persist",
                      !.loc.ai_analysis = ai_analysis,
                      !.loc.conversation_at_call =
                          handlers[tasks[t].h].conversation])
    /\ UNCHANGED <<call_data, handlers, greeting_cache, call_sessions,
                   borrower_updates, nTasks, nUtterances, budget, dispatchVars, unitVars>>

\* save_transcript from the return of create_call_session to the call of
\* update_borrower.  The record holds a reference to the conversation, which
\* the driver encodes in a worker thread: as it was at the call, or as it is
\* by the return (`late`).  When the insert raises, the except clause ends
\* save_transcript.  With a borrower_id and a user_id the borrower is loaded
\* (get_borrower_by_no touches no state of the program): ai_analysis.get and
\* borrower.get raise on None, which the except clause absorbs; otherwise the
\* outcomes are determined and update_borrower is called.
save_transcript_session_saved(t, inserted, late, borrower, today) ==
    /\ tasks[t].kind = "event" /\ tasks[t].pc = "persist"
    /\ late => handlers[tasks[t].h].conversation # tasks[t].loc.conversation_at_call
    /\ LET h == tasks[t].h
           handler == handlers[h]
           loc == tasks[t].loc
           ai_analysis == loc.ai_analysis
           record == [call_uuid |-> handler.call_uuid,
                      user_id |-> handler.user_id,
                      handler |-> h, task |-> t,
                      conversation |-> IF late THEN handler.conversation
                                       ELSE loc.conversation_at_call,
                      ai_analysis |-> ai_analysis]
       IN IF ~inserted
          THEN /\ event_cleanup(t, loc)
               /\ UNCHANGED call_sessions
          ELSE /\ call_sessions' = call_sessions \cup {record}
               /\ IF handler.borrower_id = None \/ handler.user_id = None
                  THEN event_cleanup(t, loc)
                  ELSE IF ~borrower.present \/ ~ai_analysis.present
                  THEN event_cleanup(t, loc)
                  ELSE /\ SetTask(t, [tasks[t] EXCEPT !.pc = "update",
                            !.loc.outcomes = <<determine_report_outcomes(
                                ai_analysis.intent, ai_analysis.payment_date,
                                borrower.Payment_Category, borrower.BORROWER,
                                handler.borrower_id, ai_analysis.mid_call,
                                today)>>])
                       /\ UNCHANGED <<call_data, greeting_cache>>
    /\ UNCHANGED <<handlers, borrower_updates, nTasks, nUtterances, budget, dispatchVars, unitVars>>

\* save_transcript from the return of update_borrower (or its exception).
save_transcript_borrower_updated(t, updated) ==
    /\ tasks[t].kind = "event" /\ tasks[t].pc = "update"
    /\ LET handler == handlers[tasks[t].h]
           loc == tasks[t].loc
       IN /\ borrower_updates' =
               IF updated
               THEN borrower_updates \cup
                      {[borrower_id |-> handler.borrower_id,
                        handler |-> tasks[t].h, task |-> t,
                        outcomes |-> loc.outcomes[1]]}
               ELSE borrower_updates
          /\ event_cleanup(t, loc)
    /\ UNCHANGED <<handlers, call_sessions, nTasks, nUtterances, budget, dispatchVars, unitVars>>

EventStep(calls, statuses, analyses, borrowers, days) ==
    \/ \E t \in TaskIds, status \in statuses, call_uuid \in calls :
         event_webhook(t, status, call_uuid)
    \/ \E t \in TaskIds, ai_analysis \in analyses :
         save_transcript_analysed(t, ai_analysis)
    \/ \E t \in TaskIds, inserted \in BOOLEAN, late \in BOOLEAN,
          borrower \in borrowers, today \in days :
         save_transcript_session_saved(t, inserted, late, borrower, today)
    \/ \E t \in TaskIds, updated \in BOOLEAN :
         save_transcript_borrower_updated(t, updated)

\* ----------------------------------------------------- generate_ai_response
\* FALLBACKS.get(language, FALLBACKS["en-IN"])
Fallback(language) ==
    IF language \in Languages
    THEN <<"fallback", language>> ELSE <<"fallback", "en-IN">>

\* sys_prompts.get(language, sys_prompts['en-IN'])
Persona(language) ==
    IF language \in Languages
    THEN <<"persona", language>> ELSE <<"persona", "en-IN">>

\* conv_history: the last five entries of the conversation, as
\* "speaker: text" lines.
conv_history(conversation) ==
    LET n == Len(conversation)
        from == IF n > 5 THEN n - 4 ELSE 1
    IN [i \in 1..(n - from + 1) |->
          <<conversation[from + i - 1].speaker, conversation[from + i - 1].text>>]

\* What happens to a call of a client: there is no client ("none"), it
\* returns a text ("ok"), or it raises an error with this message.
GeminiOutcomes == {"none", "ok", "429 Too Many Requests",
                   "RESOURCE_EXHAUSTED", "500 INTERNAL"}
GroqOutcomes == {"none", "ok", "503 Service Unavailable"}

\* "429" in str(e) or "RESOURCE_EXHAUSTED" in str(e), on the messages above.
RateLimited(error) == error \in {"429 Too Many Requests", "RESOURCE_EXHAUSTED"}

\* gemini_client.models.generate_content(...) of the synchronous client: the
\* response of the service, or its error.
generate_content(gemini) ==
    IF gemini = "ok" THEN [kind |-> "response"]
    ELSE [kind |-> "error", message |-> gemini]

\* groq_client.chat.completions.create(...): groq_client is an AsyncGroq, and
\* the call is not awaited, so whatever the service would answer, what comes
\* back is a coroutine object and no request is sent.
completions_create(groq) == [kind |-> "coroutine"]

\* response.choices[0].message.content: a coroutine has no choices, and the
\* AttributeError is caught like an error of the service.
has_choices(response) == response.kind = "response"

\* The reply of a model to a prompt: the utterance it answers, and for the
\* secondary its name.
ReplyText(by, user_text) ==
    IF by = "gemini" THEN <<"reply", user_text[2]>>
    ELSE <<"reply", user_text[2], by>>

\* A call of a generation capability with its persona, history and text.
GenerationCall(by, language, history, user_text) ==
    [to |-> by, persona |-> Persona(language), conv_history |-> history,
     user_text |-> user_text]

\* generate_ai_response: the text it returns and the calls it made.
generate_ai_response(user_text, language, history, gemini, groq) ==
    LET primary == GenerationCall("gemini", language, history, user_text)
        secondary == GenerationCall("groq", language, history, user_text)
        response == generate_content(gemini)
    IN IF gemini = "none"
       THEN [text |-> Fallback(language), calls |-> << >>]
       ELSE IF response.kind = "response"
       THEN [text |-> ReplyText("gemini", user_text), calls |-> <<primary>>]
       ELSE IF groq # "none" /\ RateLimited(response.message)
       THEN IF has_choices(completions_create(groq))
            THEN [text |-> ReplyText("groq", user_text),
                  calls |-> <<primary, secondary>>]
            ELSE [text |-> Fallback(language),
                  calls |-> <<primary, secondary>>]
       ELSE [text |-> Fallback(language), calls |-> <<primary>>]

\* Both clients configured and the primary answering.
PrimaryReply == [gemini |-> "ok", groq |-> "ok"]

\* An endpoint that accepts the stream of any call.
websocket_endpoint_accept_all(t, call_uuid) ==
    /\ IsNext(t)
    /\ nTasks' = t
    /\ SetTask(t, [kind |-> "ws", pc |-> "accept",
                   call_uuid |-> call_uuid, h |-> 0,
                   loc |-> [sent |-> << >>, u |-> 0, script |-> None,
                            buffered |-> FALSE, generate |-> << >>,
                            reply |-> << >>, synthesize |-> << >>,
                            audio_response |-> << >>]])
    /\ UNCHANGED <<call_data, handlers, greeting_cache, call_sessions,
                   borrower_updates, nUtterances, budget, dispatchVars, unitVars>>

\* ------------------------------------------------------ websocket_endpoint
\* websocket_endpoint up to its first await: a call_uuid that is not
\* registered is closed without being accepted; otherwise the socket is
\* accepted.
websocket_endpoint(t, call_uuid) ==
    /\ IsNext(t)
    /\ nTasks' = t
    /\ SetTask(t, [kind |-> "ws",
                   pc |-> IF call_uuid \in DOMAIN call_data
                          THEN "accept" ELSE "refused",
                   call_uuid |-> call_uuid, h |-> 0,
                   loc |-> [sent |-> << >>, u |-> 0, script |-> None,
                            buffered |-> FALSE, generate |-> << >>,
                            reply |-> << >>, synthesize |-> << >>,
                            audio_response |-> << >>]])
    /\ UNCHANGED <<call_data, handlers, greeting_cache, call_sessions,
                   borrower_updates, nUtterances, budget, dispatchVars, unitVars>>

\* A handler that enters the receive loop without sending the greeting.
websocket_accepted_silent(t) ==
    /\ tasks[t].kind = "ws" /\ tasks[t].pc = "accept"
    /\ LET call_uuid == tasks[t].call_uuid
       IN IF call_uuid \notin DOMAIN call_data
          THEN SetTask(t, [tasks[t] EXCEPT !.pc = "raised"])
          ELSE SetTask(t, [tasks[t] EXCEPT !.pc = "receive",
                                           !.h = call_data[call_uuid]])
    /\ UNCHANGED <<call_data, handlers, greeting_cache, call_sessions,
                   borrower_updates, nTasks, nUtterances, budget, dispatchVars, unitVars>>

\* From the return of websocket.accept(): handler = call_data[call_uuid]
\* (KeyError when the session was removed meanwhile), then the cached greeting
\* is sent and the receive loop is entered.
websocket_accepted(t) ==
    /\ tasks[t].kind = "ws" /\ tasks[t].pc = "accept"
    /\ LET call_uuid == tasks[t].call_uuid
       IN IF call_uuid \notin DOMAIN call_data
          THEN SetTask(t, [tasks[t] EXCEPT !.pc = "raised"])
          ELSE SetTask(t, [tasks[t] EXCEPT
                  !.pc = "receive",
                  !.h = call_data[call_uuid],
                  !.loc.sent = IF call_uuid \in DOMAIN greeting_cache
                               THEN <<greeting_cache[call_uuid]>> ELSE << >>])
    /\ UNCHANGED <<call_data, handlers, greeting_cache, call_sessions,
                   borrower_updates, nTasks, nUtterances, budget, dispatchVars, unitVars>>

\* A disconnect whose finally clause removes the session from the registry.
websocket_disconnect_cleanup(t) ==
    /\ tasks[t].kind = "ws" /\ tasks[t].pc = "receive"
    /\ SetTask(t, [tasks[t] EXCEPT !.pc = "closed"])
    /\ call_data' = DictDel(call_data, tasks[t].call_uuid)
    /\ UNCHANGED <<handlers, greeting_cache, call_sessions,
                   borrower_updates, nTasks, nUtterances, budget, dispatchVars, unitVars>>

\* websocket.receive() raises WebSocketDisconnect (or another error): the
\* handler ends; the finally clause leaves call_data alone.
websocket_disconnect(t) ==
    /\ tasks[t].kind = "ws" /\ tasks[t].pc = "receive"
    /\ SetTask(t, [tasks[t] EXCEPT !.pc = "closed"])
    /\ UNCHANGED <<call_data, handlers, greeting_cache, call_sessions,
                   borrower_updates, nTasks, nUtterances, budget, dispatchVars, unitVars>>

\* What the receive loop does with an utterance whose transcript is in the
\* given script (None: no transcript): without a transcript it receives
\* again; with one, the language is updated, the User entry is appended
\* and generate_ai_response is called.
utterance_received(t, script) ==
    /\ tasks[t].kind = "ws" /\ tasks[t].pc = "receive"
    /\ nUtterances < budget.utterances
    /\ nUtterances' = nUtterances + 1
    /\ IF script = None
       THEN /\ SetTask(t, [tasks[t] EXCEPT !.loc.u = nUtterances + 1,
                                           !.loc.script = None,
                                           !.loc.buffered = FALSE])
            /\ UNCHANGED handlers
       ELSE LET h == tasks[t].h
                transcript == <<"utterance", nUtterances + 1, script>>
                detected_lang == detect_language(script)
                handler == add_entry(update_language(handlers[h], detected_lang),
                                     "User", transcript)
            IN /\ handlers' = [handlers EXCEPT ![h] = handler]
               /\ SetTask(t, [tasks[t] EXCEPT
                     !.pc = "generate",
                     !.loc.u = nUtterances + 1,
                     !.loc.script = script,
                     !.loc.buffered = FALSE,
                     !.loc.generate =
                         <<[user_text |-> transcript,
                            language |-> handler.current_language,
                            conv_history |-> conv_history(handler.conversation)]>>])

\* websocket.receive() returns a chunk with which add_chunk signals an
\* utterance, to the call of generate_ai_response: the audio is drained and
\* transcribed (transcribe_sarvam and detect_language touch no state of the
\* program).  Without a transcript the loop receives again; with one, the
\* language is updated and the User entry is appended.  (A chunk without a
\* signal and a text frame change nothing.)
websocket_utterance(t, script) ==
    /\ utterance_received(t, script)
    /\ UNCHANGED <<call_data, greeting_cache, call_sessions, borrower_updates,
                   nTasks, budget, dispatchVars, unitVars>>

\* The same step with transcribe_sarvam spelled out: the audio drained from
\* the AudioBuffer and the responses of the service to its requests.
websocket_transcribed(t, audio_data, responses) ==
    LET call == transcribe_sarvam(audio_data, responses)
    IN /\ utterance_received(t, call.script)
       /\ stt' = <<call>>
       /\ UNCHANGED <<call_data, greeting_cache, call_sessions, borrower_updates,
                      nTasks, budget, dispatchVars, resolverVars, segmenterVars,
                      placerVars>>

\* transcribe_sarvam applied to audio of any length.
transcribe(audio_data, responses) ==
    /\ stt = << >>
    /\ stt' = <<transcribe_sarvam(audio_data, responses)>>
    /\ UNCHANGED <<lifeVars, dispatchVars, resolverVars, segmenterVars,
                   placerVars>>

\* From the return of generate_ai_response, which ran in a worker thread on
\* the transcript, the language and the context it was called with: the AI
\* entry is appended and synthesize_sarvam is called on the reply, in the
\* language that is current now.
websocket_generated(t, gemini, groq) ==
    /\ tasks[t].kind = "ws" /\ tasks[t].pc = "generate"
    /\ LET h == tasks[t].h
           call == tasks[t].loc.generate[1]
           reply == generate_ai_response(call.user_text, call.language,
                                         call.conv_history, gemini, groq)
           ai_response == reply.text
       IN /\ handlers' = [handlers EXCEPT ![h] = add_entry(@, "AI", ai_response)]
          /\ SetTask(t, [tasks[t] EXCEPT
                !.pc = "synthesize",
                !.loc.reply = <<[gemini |-> gemini, groq |-> groq,
                                 text |-> reply.text, calls |-> reply.calls]>>,
                !.loc.synthesize =
                    <<[text |-> ai_response,
                       language |-> handlers[h].current_language]>>])
    /\ UNCHANGED <<call_data, greeting_cache, call_sessions, borrower_updates,
                   nTasks, nUtterances, budget, dispatchVars, unitVars>>

\* A loop that takes the AI entry back when its synthesis failed.
websocket_synthesized_rollback(t, synthesized, connected) ==
    /\ tasks[t].kind = "ws" /\ tasks[t].pc = "synthesize"
    /\ LET call == tasks[t].loc.synthesize[1]
           audio_response == Audio(call.text, call.language)
           conversation == handlers[tasks[t].h].conversation
           next == [tasks[t] EXCEPT !.loc.generate = << >>,
                                    !.loc.reply = << >>,
                                    !.loc.synthesize = << >>,
                                    !.loc.audio_response =
                                        IF synthesized THEN <<audio_response>>
                                        ELSE << >>]
       IN IF ~synthesized
          THEN /\ SetTask(t, [next EXCEPT !.pc = "receive"])
               /\ handlers' = [handlers EXCEPT ![tasks[t].h].conversation =
                                  SubSeq(conversation, 1, Len(conversation) - 1)]
          ELSE /\ UNCHANGED handlers
               /\ IF connected
                  THEN SetTask(t, [next EXCEPT !.pc = "receive",
                                      !.loc.sent = Append(@, audio_response)])
                  ELSE SetTask(t, [next EXCEPT !.pc = "closed"])
    /\ UNCHANGED <<call_data, greeting_cache, call_sessions,
                   borrower_updates, nTasks, nUtterances, budget, dispatchVars, unitVars>>

\* A loop that a failed synthesis ends.
websocket_synthesized_fatal(t, synthesized, connected) ==
    /\ tasks[t].kind = "ws" /\ tasks[t].pc = "synthesize"
    /\ LET call == tasks[t].loc.synthesize[1]
           audio_response == Audio(call.text, call.language)
           next == [tasks[t] EXCEPT !.loc.generate = << >>,
                                    !.loc.reply = << >>,
                                    !.loc.synthesize = << >>,
                                    !.loc.audio_response =
                                        IF synthesized THEN <<audio_response>>
                                        ELSE << >>]
       IN IF synthesized /\ connected
          THEN SetTask(t, [next EXCEPT !.pc = "receive",
                              !.loc.sent = Append(@, audio_response)])
          ELSE SetTask(t, [next EXCEPT !.pc = "closed"])
    /\ UNCHANGED <<call_data, handlers, greeting_cache, call_sessions,
                   borrower_updates, nTasks, nUtterances, budget, dispatchVars, unitVars>>

\* From the return of synthesize_sarvam: the audio, if any, is sent, and the
\* loop receives again; a send on a closed socket ends the handler.  The
\* locals of the turn are dead from here on.
websocket_synthesized(t, synthesized, connected) ==
    /\ tasks[t].kind = "ws" /\ tasks[t].pc = "synthesize"
    /\ LET call == tasks[t].loc.synthesize[1]
           audio_response == Audio(call.text, call.language)
           next == [tasks[t] EXCEPT !.loc.generate = << >>,
                                    !.loc.reply = << >>,
                                    !.loc.synthesize = << >>,
                                    !.loc.audio_response =
                                        IF synthesized THEN <<audio_response>>
                                        ELSE << >>]
       IN IF ~synthesized
          THEN SetTask(t, [next EXCEPT !.pc = "receive"])
          ELSE IF connected
          THEN SetTask(t, [next EXCEPT !.pc = "receive",
                              !.loc.sent = Append(@, audio_response)])
          ELSE SetTask(t, [next EXCEPT !.pc = "closed"])
    /\ UNCHANGED <<call_data, handlers, greeting_cache, call_sessions,
                   borrower_updates, nTasks, nUtterances, budget, dispatchVars, unitVars>>

\* websocket.receive() returns a chunk with which add_chunk does not signal:
\* the chunk is accumulated in the AudioBuffer of the stream, which holds
\* audio from now to the next get_audio(), and the loop receives again.
websocket_chunk(t) ==
    /\ tasks[t].kind = "ws" /\ tasks[t].pc = "receive"
    /\ ~tasks[t].loc.buffered
    /\ SetTask(t, [tasks[t] EXCEPT !.loc.buffered = TRUE])
    /\ UNCHANGED <<call_data, handlers, greeting_cache, call_sessions,
                   borrower_updates, nTasks, nUtterances, budget, dispatchVars, unitVars>>

StreamStep(calls, scripts, outcomes, replies) ==
    \/ \E t \in TaskIds, call_uuid \in calls : websocket_endpoint(t, call_uuid)
    \/ \E t \in TaskIds : websocket_accepted(t)
    \/ \E t \in TaskIds, script \in scripts : websocket_utterance(t, script)
    \/ \E t \in TaskIds : websocket_disconnect(t)
    \/ \E t \in TaskIds, reply \in replies :
         websocket_generated(t, reply.gemini, reply.groq)
    \/ \E t \in TaskIds, synthesized \in outcomes, connected \in outcomes :
         websocket_synthesized(t, synthesized, connected)

\* ------------------------------------------------------------ ai_semaphore
\* asyncio.Semaphore.locked(): no permit, or somebody is waiting.
locked(sem) == sem.value = 0 \/ sem.waiters # << >>

\* asyncio.Semaphore._wake_up_next(): the first waiter that was not woken yet
\* is given a permit and woken.
wake_up_next(sem) ==
    LET pending == {i \in 1..Len(sem.waiters) : ~sem.waiters[i].done}
    IN IF pending = {} THEN sem
       ELSE LET i == CHOOSE j \in pending : \A k \in pending : j <= k
            IN [value |-> sem.value - 1,
                waiters |-> [sem.waiters EXCEPT ![i].done = TRUE]]

\* The loop at the end of acquire(): while permits are left, wake the next.
RECURSIVE wake_while_free(_)
wake_while_free(sem) ==
    IF sem.value > 0 /\ wake_up_next(sem) # sem
    THEN wake_while_free(wake_up_next(sem))
    ELSE sem

\* asyncio.Semaphore.release()
release(sem) == wake_up_next([sem EXCEPT !.value = @ + 1])

\* The exit of `async with ai_semaphore` that keeps the permit when the
\* analysis failed.
exit_analysis_on_success(sem, ai_analysis) ==
    IF ai_analysis.present THEN release(sem) ELSE sem

\* The exit of `async with ai_semaphore`: the permit is released, whatever
\* the analysis returned.
exit_analysis(sem, ai_analysis) == release(sem)

\* ------------------------------------- process_single_call, create_dummy_call
SetDispatch(d, task) == dispatch' = [dispatch EXCEPT ![d] = task]

\* One more entry in the history of the attempts of a request: how the
\* attempt ended, and whether determine_report_outcomes ran in it.
Logged(task, result, resolved) ==
    [task EXCEPT !.log = Append(@, [result |-> result, resolved |-> resolved])]

\* The response of a request whose last attempt connected.
CallResponse(task, status) ==
    [ success |-> TRUE, status |-> status, borrower_id |-> task.NO,
      is_dummy |-> task.use_dummy_data,
      mid_call |-> task.last_res.mid_call,
      next_step_summary |->
          IF task.last_res.outcomes = << >> THEN << >>
          ELSE task.last_res.outcomes[1].next_step_summary,
      email_to_manager_preview |->
          IF task.last_res.outcomes = << >> THEN NoEmail
          ELSE task.last_res.outcomes[1].email_to_manager_preview,
      require_manual_process |->
          IF task.last_res.outcomes = << >> THEN FALSE
          ELSE task.last_res.outcomes[1].require_manual_process,
      follow_up_date |-> None ]

\* email_failure_preview
FailureEmail(NO) ==
    [ present |-> TRUE, to |-> "Area Manager",
      subject |-> <<"Action Required: Multiple Call Failures - Borrower", NO>>,
      body |-> <<"all calls failed to connect (Zero duration)", NO>> ]

\* A failure response that leaves require_manual_process at its default.
FailedPickupResponse_unflagged(task) ==
    [ success |-> TRUE, status |-> "Failed pickup", borrower_id |-> task.NO,
      is_dummy |-> FALSE, mid_call |-> FALSE,
      next_step_summary |->
          <<"All call attempts failed after 3 tries. Escalating to Manual Process.">>,
      email_to_manager_preview |-> FailureEmail(task.NO),
      require_manual_process |-> FALSE,
      follow_up_date |-> None ]

\* The response of a request whose attempts all failed.
\* success=True: "Mark as 'Success' in terms of processing finished".
FailedPickupResponse(task) ==
    [ success |-> TRUE, status |-> "Failed pickup", borrower_id |-> task.NO,
      is_dummy |-> FALSE, mid_call |-> FALSE,
      next_step_summary |->
          <<"All call attempts failed after 3 tries. Escalating to Manual Process.">>,
      email_to_manager_preview |-> FailureEmail(task.NO),
      require_manual_process |-> TRUE,
      follow_up_date |-> None ]

\* One iteration of the loop of process_single_call, up to its first await.
\* Real mode: make_outbound_call returns at once, placed or not; a placed
\* call ends the loop and the request; a failed one sleeps.  Dummy mode:
\* create_dummy_call returns a failure at once for 'failed_pickup', else it
\* acquires ai_semaphore (at once when it is not locked, else it waits).
attempt_body(d, task, placed) ==
    IF ~task.use_dummy_data
    THEN /\ UNCHANGED ai_semaphore
         /\ IF placed
            THEN LET t1 == [Logged(task, "connected", FALSE) EXCEPT
                               !.last_res = [success |-> TRUE,
                                             mid_call |-> FALSE,
                                             outcomes |-> << >>]]
                 IN SetDispatch(d, [t1 EXCEPT !.pc = "returned",
                                      !.result = <<CallResponse(t1, "initiated")>>])
            ELSE SetDispatch(d, [Logged(task, "no_connect", FALSE) EXCEPT
                                   !.pc = "sleep", !.last_res = NoResult])
    ELSE IF task.intent = "failed_pickup"
    THEN /\ UNCHANGED ai_semaphore
         /\ SetDispatch(d, [Logged(task, "no_connect", FALSE) EXCEPT
                              !.pc = "sleep", !.last_res = NoResult])
    ELSE IF ~locked(ai_semaphore)
    THEN /\ ai_semaphore' = [ai_semaphore EXCEPT !.value = @ - 1]
         /\ SetDispatch(d, [task EXCEPT !.pc = "groq"])
    ELSE /\ ai_semaphore' = [ai_semaphore EXCEPT
                               !.waiters = Append(@, [d |-> d, done |-> FALSE])]
         /\ SetDispatch(d, [task EXCEPT !.pc = "waiting"])

\* trigger_bulk_calls up to the await of asyncio.gather: an empty request is
\* rejected (HTTP 400); otherwise one process_single_call task per borrower is
\* created.
trigger_bulk_calls(use_dummy_data, borrowers) ==
    /\ bulk.status = "idle"
    /\ IF borrowers = << >>
       THEN /\ bulk' = [bulk EXCEPT !.status = "rejected"]
            /\ UNCHANGED dispatch
       ELSE /\ bulk' = [bulk EXCEPT !.status = "gathering",
                                    !.total_requests = Len(borrowers)]
            /\ dispatch' = [d \in DispatchIds |->
                  IF d <= Len(borrowers)
                  THEN [IdleDispatch EXCEPT
                          !.pc = "start", !.NO = d,
                          !.intent = borrowers[d],
                          !.use_dummy_data = use_dummy_data]
                  ELSE IdleDispatch]
    /\ UNCHANGED <<lifeVars, unitVars, ai_semaphore>>

\* process_single_call from its start to its first await.
process_single_call(d, placed) ==
    /\ dispatch[d].pc = "start"
    /\ attempt_body(d, dispatch[d], placed)
    /\ UNCHANGED <<lifeVars, unitVars, bulk>>

\* create_dummy_call from its wake-up in acquire(): the waiter leaves the
\* queue, wakes the next ones while permits are left, and calls
\* analyze_conversation_with_groq.
semaphore_acquired(d) ==
    /\ dispatch[d].pc = "waiting"
    /\ \E i \in 1..Len(ai_semaphore.waiters) :
         /\ ai_semaphore.waiters[i].d = d /\ ai_semaphore.waiters[i].done
         /\ ai_semaphore' = wake_while_free(
              [ai_semaphore EXCEPT !.waiters =
                  SubSeq(@, 1, i - 1) \o SubSeq(@, i + 1, Len(@))])
    /\ SetDispatch(d, [dispatch[d] EXCEPT !.pc = "groq"])
    /\ UNCHANGED <<lifeVars, unitVars, bulk>>

\* From the end of the analysis to the await of create_call_session.
analysis_done(d, ai_analysis) ==
    /\ ai_semaphore' = exit_analysis(ai_semaphore, ai_analysis)
    /\ SetDispatch(d, [dispatch[d] EXCEPT !.pc = "session",
                                          !.ai_analysis = ai_analysis])

\* From the return of analyze_conversation_with_groq: without an analysis,
\* analyze_conversation_with_gemini (which calls Groq again) is awaited, the
\* permit still held.
analysed_groq(d, ai_analysis) ==
    /\ dispatch[d].pc = "groq"
    /\ IF ai_analysis.present
       THEN analysis_done(d, ai_analysis)
       ELSE /\ SetDispatch(d, [dispatch[d] EXCEPT !.pc = "gemini"])
            /\ UNCHANGED ai_semaphore
    /\ UNCHANGED <<lifeVars, unitVars, bulk>>

\* From the return of analyze_conversation_with_gemini.
analysed_gemini(d, ai_analysis) ==
    /\ dispatch[d].pc = "gemini"
    /\ analysis_done(d, ai_analysis)
    /\ UNCHANGED <<lifeVars, unitVars, bulk>>

\* The attempt raised: create_dummy_call returns success False and
\* process_single_call sleeps before the next attempt.
attempt_failed(d, task, resolved) ==
    SetDispatch(d, [Logged(task, "error", resolved) EXCEPT
                      !.pc = "sleep", !.last_res = NoResult])

\* From the return of create_call_session (or its exception) to the await of
\* update_borrower.  The borrower is loaded (get_borrower_by_no touches no
\* state of the program) and the outcomes are determined from the analysis
\* (intent "No Response" without one) and the borrower's category
\* ("Consistent" without a record).
session_saved(d, inserted, borrower_in_db, today) ==
    /\ dispatch[d].pc = "session"
    /\ IF inserted
       THEN LET ai_analysis == dispatch[d].ai_analysis
                outcomes == determine_report_outcomes(
                    IF ai_analysis.present THEN ai_analysis.intent
                    ELSE "No Response",
                    IF ai_analysis.present THEN ai_analysis.payment_date
                    ELSE None,
                    IF borrower_in_db.present
                    THEN borrower_in_db.Payment_Category ELSE "Consistent",
                    IF borrower_in_db.present THEN borrower_in_db.BORROWER
                    ELSE <<"Borrower", dispatch[d].NO>>,
                    dispatch[d].NO,
                    IF ai_analysis.present THEN ai_analysis.mid_call ELSE FALSE,
                    today)
            IN /\ call_sessions' = call_sessions \cup
                    {[call_uuid |-> <<"dummy", d, dispatch[d].attempt>>,
                      user_id |-> "u1", handler |-> 0,
                      conversation |-> <<dispatch[d].intent>>,
                      ai_analysis |-> ai_analysis]}
               /\ SetDispatch(d, [dispatch[d] EXCEPT
                     !.pc = "update",
                     !.last_res = [success |-> FALSE,
                                   mid_call |-> IF ai_analysis.present
                                                THEN ai_analysis.mid_call
                                                ELSE FALSE,
                                   outcomes |-> <<outcomes>>]])
       ELSE /\ UNCHANGED call_sessions
            /\ attempt_failed(d, dispatch[d], FALSE)
    /\ UNCHANGED <<call_data, handlers, greeting_cache, borrower_updates,
                   tasks, nTasks, nUtterances, budget, ai_semaphore, bulk,
                   unitVars>>

\* From the return of update_borrower (or its exception) to the end of the
\* attempt: a connected attempt ends the loop, with or without mid_call, and
\* the request returns its response.
borrower_updated(d, updated) ==
    /\ dispatch[d].pc = "update"
    /\ IF updated
       THEN /\ borrower_updates' = borrower_updates \cup
                 {[borrower_id |-> dispatch[d].NO, handler |-> 0,
                   request |-> d, attempt |-> dispatch[d].attempt,
                   escalation |-> FALSE,
                   outcomes |-> dispatch[d].last_res.outcomes[1]]}
            /\ LET t1 == [Logged(dispatch[d], "connected", TRUE) EXCEPT
                             !.last_res.success = TRUE]
               IN SetDispatch(d, [t1 EXCEPT !.pc = "returned",
                                    !.result = <<CallResponse(t1, "completed")>>])
       ELSE /\ UNCHANGED borrower_updates
            /\ attempt_failed(d, dispatch[d], TRUE)
    /\ UNCHANGED <<call_data, handlers, greeting_cache, call_sessions,
                   tasks, nTasks, nUtterances, budget, ai_semaphore, bulk,
                   unitVars>>

\* A retry loop that allows one attempt more.
slept_once_more(d, placed) ==
    /\ dispatch[d].pc = "sleep"
    /\ LET task == [dispatch[d] EXCEPT !.attempt = @ + 1]
       IN IF task.attempt < max_attempts + 1
          THEN attempt_body(d, task, placed)
          ELSE /\ SetDispatch(d, [task EXCEPT !.pc = "escalate"])
               /\ UNCHANGED ai_semaphore
    /\ UNCHANGED <<lifeVars, unitVars, bulk>>

\* From the return of asyncio.sleep(1): the next attempt, or after the last
\* one the await of the update_borrower of the failure path.
slept(d, placed) ==
    /\ dispatch[d].pc = "sleep"
    /\ LET task == [dispatch[d] EXCEPT !.attempt = @ + 1]
       IN IF task.attempt < max_attempts
          THEN attempt_body(d, task, placed)
          ELSE /\ SetDispatch(d, [task EXCEPT !.pc = "escalate"])
               /\ UNCHANGED ai_semaphore
    /\ UNCHANGED <<lifeVars, unitVars, bulk>>

\* From the return of the update_borrower of the failure path (or its
\* exception, which nothing catches) to the return of process_single_call.
escalated(d, updated) ==
    /\ dispatch[d].pc = "escalate"
    /\ IF updated
       THEN /\ borrower_updates' = borrower_updates \cup
                 {[borrower_id |-> dispatch[d].NO, handler |-> 0,
                   request |-> d, attempt |-> dispatch[d].attempt,
                   escalation |-> TRUE,
                   outcomes |-> [require_manual_process |-> TRUE,
                                 email_to_manager_preview |->
                                     FailureEmail(dispatch[d].NO)]]}
            /\ SetDispatch(d, [dispatch[d] EXCEPT !.pc = "returned",
                  !.result = <<FailedPickupResponse(dispatch[d])>>])
       ELSE /\ UNCHANGED borrower_updates
            /\ SetDispatch(d, [dispatch[d] EXCEPT !.pc = "raised"])
    /\ UNCHANGED <<call_data, handlers, greeting_cache, call_sessions,
                   tasks, nTasks, nUtterances, budget, ai_semaphore, bulk,
                   unitVars>>

\* A response that lists the results from the last request to the first.
gathered_reversed ==
    /\ bulk.status = "gathering"
    /\ \A d \in 1..bulk.total_requests : dispatch[d].pc = "returned"
    /\ LET n == bulk.total_requests
           results == [d \in 1..n |-> dispatch[n + 1 - d].result[1]]
           successful == Cardinality({d \in 1..n : results[d].success})
       IN bulk' = [bulk EXCEPT !.status = "done",
                               !.successful_calls = successful,
                               !.failed_calls = Len(results) - successful,
                               !.results = results]
    /\ UNCHANGED <<lifeVars, unitVars, dispatch, ai_semaphore>>

\* trigger_bulk_calls from the return of asyncio.gather: the requests are
\* counted by the success flag of their responses.
gathered ==
    /\ bulk.status = "gathering"
    /\ \A d \in 1..bulk.total_requests : dispatch[d].pc = "returned"
    /\ LET results == [d \in 1..bulk.total_requests |-> dispatch[d].result[1]]
           successful == Cardinality({d \in 1..bulk.total_requests :
                                        results[d].success})
       IN bulk' = [bulk EXCEPT !.status = "done",
                               !.successful_calls = successful,
                               !.failed_calls = Len(results) - successful,
                               !.results = results]
    /\ UNCHANGED <<lifeVars, unitVars, dispatch, ai_semaphore>>

\* asyncio.gather raises the exception of a request that raised.
gather_raised ==
    /\ bulk.status = "gathering"
    /\ \E d \in 1..bulk.total_requests : dispatch[d].pc = "raised"
    /\ bulk' = [bulk EXCEPT !.status = "raised"]
    /\ UNCHANGED <<lifeVars, unitVars, dispatch, ai_semaphore>>

\* The steps of the request d: its start and its analysis under the
\* semaphore; the persistence of a connected attempt; the retry loop.
AnalysisStep(d, analyses) ==
    \/ \E placed \in BOOLEAN : process_single_call(d, placed)
    \/ \E ai_analysis \in analyses : analysed_groq(d, ai_analysis)
    \/ \E ai_analysis \in analyses : analysed_gemini(d, ai_analysis)

PersistStep(d, stored, borrowers, days) ==
    \/ \E inserted \in stored, borrower_in_db \in borrowers, today \in days :
         session_saved(d, inserted, borrower_in_db, today)
    \/ \E updated \in stored : borrower_updated(d, updated)

RetryStep(d) ==
    \/ \E placed \in BOOLEAN : slept(d, placed)
    \/ \E updated \in BOOLEAN : escalated(d, updated)

\* The bulk requests of the given sizes with the given intents.
BulkRequests(sizes, intents) == UNION {[1..n -> intents] : n \in sizes}

BulkStep(modes, sizes, intents) ==
    \/ \E use_dummy_data \in modes, request \in BulkRequests(sizes, intents) :
         trigger_bulk_calls(use_dummy_data, request)
    \/ gathered

\* ---------------------------------------------------------- specifications
\* The call lifecycle of one call: its answer callbacks, audio streams and
\* events, in any number and order.
Next ==
    \/ AnswerStep({"c1"})
    \/ EventStep({"c1"}, EventStatuses, AnalysisResults, BorrowerResults, Today)
    \/ StreamStep({"c1"}, {"latin"}, {TRUE}, {PrimaryReply})

Spec == Init /\ [][Next]_vars

\* The same call with one more request and one more utterance, every
\* capability succeeding: a busy call.
InitBusy ==
    /\ InitDispatch
    /\ InitUnits
    /\ call_data = << >>
    /\ handlers = << >>
    /\ greeting_cache = << >>
    /\ call_sessions = {}
    /\ borrower_updates = {}
    /\ tasks = [t \in TaskIds |-> IdleTask]
    /\ nTasks = 0
    /\ nUtterances = 0
    /\ budget = [requests |-> MaxTasks + 1, utterances |-> MaxUtterances + 1]

NextBusy ==
    \/ AnswerStep({"c1"})
    \/ EventStep({"c1"}, {"completed"}, AnalysisResults \ {NoAnalysis},
                 BorrowerResults \ {NoBorrower}, Today)
    \/ StreamStep({"c1"}, {"latin"}, {TRUE}, {PrimaryReply})

SpecBusy == InitBusy /\ [][NextBusy]_vars

\* A stream of the call is open: connecting, or in its receive loop.
StreamOpen(call_uuid) ==
    \E t \in TaskIds :
        /\ tasks[t].kind = "ws" /\ tasks[t].call_uuid = call_uuid
        /\ tasks[t].pc \notin {"refused", "closed", "raised"}

\* What the borrower of the call speaks: English or Hindi, or nothing that
\* is transcribed.
StreamScripts == {"latin", "devanagari", None}

\* What the reply generation of an utterance may meet.
ReplyOutcomes == [gemini : GeminiOutcomes, groq : GroqOutcomes]

\* The turn-taking loop of one call: the provider answers it and connects
\* one audio stream at a time; the utterances are in any script or are not
\* transcribed, and transcription, generation and synthesis succeed or fail.
\* The peer hangs up between two chunks, not while a reply is sent to it.
InitStream ==
    /\ InitDispatch
    /\ InitUnits
    /\ call_data = << >>
    /\ handlers = << >>
    /\ greeting_cache = << >>
    /\ call_sessions = {}
    /\ borrower_updates = {}
    /\ tasks = [t \in TaskIds |-> IdleTask]
    /\ nTasks = 0
    /\ nUtterances = 0
    /\ budget = [requests |-> MaxTasks - 1, utterances |-> MaxUtterances + 1]

NextStream ==
    \/ AnswerStep({"c1"})
    \/ \E t \in TaskIds, call_uuid \in {"c1"} :
         ~StreamOpen(call_uuid) /\ websocket_endpoint(t, call_uuid)
    \/ \E t \in TaskIds : websocket_accepted(t)
    \/ \E t \in TaskIds : websocket_chunk(t)
    \/ \E t \in TaskIds, script \in StreamScripts :
         websocket_utterance(t, script)
    \/ \E t \in TaskIds : websocket_disconnect(t)
    \/ \E t \in TaskIds, reply \in ReplyOutcomes :
         websocket_generated(t, reply.gemini, reply.groq)
    \/ \E t \in TaskIds, synthesized \in BOOLEAN :
         websocket_synthesized(t, synthesized, TRUE)

SpecStream == InitStream /\ [][NextStream]_vars

NextTwoCalls ==
    \/ \E t \in TaskIds, call_uuid \in CallIds :
         answer_webhook(t, AnswerData(call_uuid))
    \/ \E t \in TaskIds : answer_synthesized(t, TRUE)
    \/ \E t \in TaskIds, call_uuid \in CallIds :
         event_webhook(t, "completed", call_uuid)
    \/ \E t \in TaskIds, ai_analysis \in AnalysisResults \ {NoAnalysis} :
         save_transcript_analysed(t, ai_analysis)
    \/ \E t \in TaskIds, borrower \in BorrowerResults \ {NoBorrower},
          today \in Today :
         save_transcript_session_saved(t, TRUE, FALSE, borrower, today)
    \/ \E t \in TaskIds : save_transcript_borrower_updated(t, TRUE)
    \/ StreamStep(CallIds, {"devanagari"}, {TRUE}, {PrimaryReply})

\* Calls placed in real mode, by /make_call and by /trigger_calls, for the
\* users u1 and u2, and the answer callbacks of the calls placed.
SingleCallRequests ==
    [to_number : {"+919000000001", "919000000002"},
     language : {"Hindi", "ta-IN", ""}, borrower_id : {"B1", None}]

BorrowerInfos ==
    [NO : {"B1"}, cell1 : {"+919000000001", "919000000002"},
     preferred_language : {"Hindi", "ta-IN", ""}]

Users == {"u1", "u2"}

NextPlace ==
    \/ \E request \in SingleCallRequests, user_id \in Users,
          voice \in BOOLEAN, created \in BOOLEAN :
         make_single_call(request, user_id, voice, created)
    \/ \E borrower \in BorrowerInfos, user_id \in Users,
          voice \in BOOLEAN, created \in BOOLEAN :
         real_call_attempt(borrower, user_id, voice, created)
    \/ \E t \in TaskIds : answer_placed(t)
    \/ \E t \in TaskIds, synthesized \in BOOLEAN :
         answer_synthesized(t, synthesized)

SpecPlace == Init /\ [][NextPlace]_vars

\* Two calls at once: the answer callbacks, streams and completions of c1
\* and c2 in any order; the capabilities and the store succeed.
InitTwoCalls ==
    /\ InitDispatch
    /\ InitUnits
    /\ call_data = << >>
    /\ handlers = << >>
    /\ greeting_cache = << >>
    /\ call_sessions = {}
    /\ borrower_updates = {}
    /\ tasks = [t \in TaskIds |-> IdleTask]
    /\ nTasks = 0
    /\ nUtterances = 0
    /\ budget = [requests |-> MaxTasks, utterances |-> MaxUtterances]

SpecTwoCalls == InitTwoCalls /\ [][NextTwoCalls]_vars

\* What the analysis of a dummy conversation may return.
DispatchAnalyses ==
    { NoAnalysis,
      [present |-> TRUE, intent |-> "Will Pay", payment_date |-> None,
       mid_call |-> TRUE] }

\* The retry loop: a bulk request of up to two borrowers, in either mode, with
\* attempts that fail to connect and a store that may fail.
RetryTask(d) ==
    \/ AnalysisStep(d, DispatchAnalyses)
    \/ PersistStep(d, BOOLEAN, BorrowerResults \ {NoBorrower}, Today)
    \/ RetryStep(d)

NextDispatch ==
    \/ BulkStep(BOOLEAN, 0..2, {"normal", "failed_pickup"})
    \/ gather_raised
    \/ \E d \in DispatchIds : RetryTask(d)

SpecDispatch == Init /\ [][NextDispatch]_vars

\* The semaphore under contention: a bulk request of up to MaxBorrowers
\* simulated calls that all connect, their analyses succeeding or failing.
ContendTask(d) ==
    \/ AnalysisStep(d, DispatchAnalyses)
    \/ semaphore_acquired(d)
    \/ PersistStep(d, {TRUE}, BorrowerResults \ {NoBorrower}, Today)

NextContend ==
    \/ BulkStep({TRUE}, 1..MaxBorrowers, {"normal"})
    \/ \E d \in DispatchIds : ContendTask(d)

SpecContend == Init /\ [][NextContend]_vars

\* The event loop runs every task that can run, and every await returns.
FairSpecContend ==
    /\ SpecContend
    /\ \A d \in DispatchIds : WF_vars(ContendTask(d))
    /\ WF_vars(gathered)

\* ----------------------------------------------------- the Outcome Resolver
\* The intents the analysis may return (the prompt's eight, with stray
\* whitespace or case), none, and one the resolver does not know.
Intents ==
    {"Paid", "Will Pay", "Needs Extension", "Dispute", "No Response",
     "Abusive Language", "Threatening Language", "Stop Calling",
     "Paid ", "paid", "Busy", "", None}

PaymentDates == {None, "", "null", "NULL", "2024-03-01"}

Categories ==
    {"Consistent", "Inconsistent", "Overdue", "OVERDUE ", "Regular", "", None}

EvalDays == 0..MaxDay

ResolverArgs ==
    [intent : Intents, payment_date : PaymentDates, category : Categories,
     borrower_name : {"Asha"}, borrower_id : {"B1"},
     is_mid_call : BOOLEAN, today : EvalDays]

\* A call of determine_report_outcomes, at the time args.today.
resolve ==
    /\ outcome = << >>
    /\ outcome' = <<determine_report_outcomes(
                        args.intent, args.payment_date, args.category,
                        args.borrower_name, args.borrower_id,
                        args.is_mid_call, args.today)>>
    /\ UNCHANGED <<lifeVars, dispatchVars, args, schedule, segmenterVars, transcriberVars, placerVars>>

\* A call of calculate_follow_up_schedule, at the time args.today.
calculate ==
    /\ schedule = << >>
    /\ schedule' = <<calculate_follow_up_schedule(args.category, args.today)>>
    /\ UNCHANGED <<lifeVars, dispatchVars, args, outcome, segmenterVars, transcriberVars, placerVars>>

InitLifecycle ==
    /\ call_data = << >>
    /\ handlers = << >>
    /\ greeting_cache = << >>
    /\ call_sessions = {}
    /\ borrower_updates = {}
    /\ tasks = [t \in TaskIds |-> IdleTask]
    /\ nTasks = 0
    /\ nUtterances = 0
    /\ budget = [requests |-> MaxTasks, utterances |-> MaxUtterances]

InitResolver ==
    /\ InitLifecycle
    /\ InitDispatch
    /\ args \in ResolverArgs
    /\ outcome = << >>
    /\ schedule = << >>
    /\ audio_buffer = NewAudioBuffer
    /\ clock = 0
    /\ heard = << >>
    /\ stt = << >>
    /\ outbound = << >>

NextResolver ==
    \/ resolve
    \/ calculate

SpecResolver == InitResolver /\ [][NextResolver]_vars

\* The outcomes of the retry loop, for every input of the resolver: one
\* request whose analysis, when there is one, returns the intent, the date and
\* the mid-call flag of args, for a borrower of the category of args.
ArgsAnalysis ==
    [present |-> TRUE, intent |-> args.intent,
     payment_date |-> args.payment_date, mid_call |-> args.is_mid_call]

ArgsBorrower ==
    [present |-> TRUE, Payment_Category |-> args.category,
     BORROWER |-> args.borrower_name]

OutcomeTask(d) ==
    \/ \E placed \in BOOLEAN : process_single_call(d, placed)
    \/ analysed_groq(d, NoAnalysis)
    \/ analysed_groq(d, ArgsAnalysis)
    \/ analysed_gemini(d, NoAnalysis)
    \/ analysed_gemini(d, ArgsAnalysis)
    \/ session_saved(d, TRUE, ArgsBorrower, args.today)
    \/ borrower_updated(d, TRUE)
    \/ RetryStep(d)

NextOutcomes ==
    \/ resolve
    \/ BulkStep(BOOLEAN, {1}, {"normal", "failed_pickup"})
    \/ gather_raised
    \/ \E d \in DispatchIds : OutcomeTask(d)

SpecOutcomes == InitResolver /\ [][NextOutcomes]_vars

\* ------------------------------------------------------------ AudioBuffer
\* Times are milliseconds; the buffer is its length in bytes (buffer.tell()).
silence_threshold == 300
silence_duration == 1200
min_speech_duration == 600
max_buffer_duration == 10000

\* 16000 * 2 bytes for a second of audio.
BytesPerMs == 32

\* An audio chunk: its length in bytes and the mean of the absolute values
\* of its 16-bit samples.
ChunkLengths == {0, 641, 19200, 320000}
ChunkLevels == {0, silence_threshold - 1, silence_threshold}
Chunks == [len : ChunkLengths, level : ChunkLevels]

\* The time between two chunks, as time.time() sees it.
Elapsed == {0, silence_duration}

\* rms of add_chunk: struct.unpack of len // 2 shorts raises on a chunk of odd
\* length (rms = 0), and a chunk without samples has rms 0.
rms(audio_chunk) ==
    IF audio_chunk.len % 2 # 0 \/ audio_chunk.len \div 2 = 0
    THEN 0
    ELSE audio_chunk.level

\* A 10 s limit that does not ask whether speech was detected.
buffer_full_unchecked(buffer, speech_detected) ==
    buffer > BytesPerMs * max_buffer_duration

\* The "10s max" test at the end of add_chunk.
buffer_full(buffer, speech_detected) ==
    buffer > BytesPerMs * max_buffer_duration /\ speech_detected

\* A silence that must last longer than silence_duration.
silence_elapsed_strict(current_time, silence_start) ==
    current_time - silence_start > silence_duration

\* current_time - self.silence_start >= self.silence_duration
silence_elapsed(current_time, silence_start) ==
    current_time - silence_start >= silence_duration

\* An add_chunk whose silence path does not ask for min_speech_duration.
add_chunk_no_floor(self, audio_chunk, current_time) ==
    LET buffer == self.buffer + audio_chunk.len
        loud == rms(audio_chunk) >= silence_threshold
        speech_detected == self.speech_detected \/ loud
        silence_start == IF loud THEN << >> ELSE self.silence_start
        trailing == speech_detected /\ ~loud
        silence_over ==
            /\ trailing
            /\ silence_start # << >>
            /\ silence_elapsed(current_time, silence_start[1])
    IN [ self |-> [buffer |-> buffer,
                   silence_start |->
                       IF trailing /\ silence_start = << >>
                       THEN <<current_time>> ELSE silence_start,
                   speech_detected |-> speech_detected],
         ready |-> silence_over \/ buffer_full(buffer, speech_detected) ]

\* AudioBuffer.add_chunk at the time current_time: the buffer after it, and
\* what it returns.
add_chunk(self, audio_chunk, current_time) ==
    LET buffer == self.buffer + audio_chunk.len
        loud == rms(audio_chunk) >= silence_threshold
        speech_detected == self.speech_detected \/ loud
        silence_start == IF loud THEN << >> ELSE self.silence_start
        trailing == speech_detected /\ ~loud
        silence_over ==
            /\ trailing
            /\ silence_start # << >>
            /\ silence_elapsed(current_time, silence_start[1])
            /\ buffer > BytesPerMs * min_speech_duration
    IN [ self |-> [buffer |-> buffer,
                   silence_start |->
                       IF trailing /\ silence_start = << >>
                       THEN <<current_time>> ELSE silence_start,
                   speech_detected |-> speech_detected],
         ready |-> silence_over \/ buffer_full(buffer, speech_detected) ]

\* AudioBuffer.get_audio: the buffered audio, and the buffer reset.
get_audio(self) ==
    [ self |-> NewAudioBuffer, audio_data |-> self.buffer ]

\* One turn of the receive loop of websocket_endpoint on a chunk of audio:
\* add_chunk, and get_audio at once when it returned True.
receive_chunk(audio_chunk, elapsed) ==
    /\ Len(heard) < MaxChunks
    /\ clock' = clock + elapsed
    /\ LET added == add_chunk(audio_buffer, audio_chunk, clock')
       IN IF added.ready
          THEN /\ audio_buffer' = get_audio(added.self).self
               /\ heard' = Append(heard,
                     [chunk |-> audio_chunk, at |-> clock', ready |-> TRUE,
                      audio_data |-> <<get_audio(added.self).audio_data>>])
          ELSE /\ audio_buffer' = added.self
               /\ heard' = Append(heard,
                     [chunk |-> audio_chunk, at |-> clock', ready |-> FALSE,
                      audio_data |-> << >>])
    /\ UNCHANGED <<lifeVars, dispatchVars, resolverVars, transcriberVars,
                   placerVars>>

InitSegmenter ==
    /\ InitLifecycle
    /\ InitDispatch
    /\ InitUnits

NextSegmenter ==
    \E audio_chunk \in Chunks, elapsed \in Elapsed :
        receive_chunk(audio_chunk, elapsed)

SpecSegmenter == InitSegmenter /\ [][NextSegmenter]_vars

\* Audio that get_audio returns after a signal: more than 0.6 s of it.
DrainedAudio == {BytesPerMs * min_speech_duration + 2}

\* Audio of any length, around the "very short" limit of transcribe_sarvam.
AudioLengths == {0, min_audio_bytes - 2, min_audio_bytes} \cup DrainedAudio

\* The utterances of one call with transcribe_sarvam spelled out, and
\* transcribe_sarvam on audio of any length: the service answers each
\* request in any way.
NextTranscribe ==
    \/ AnswerStep({"c1"})
    \/ \E t \in TaskIds, call_uuid \in {"c1"} :
         ~StreamOpen(call_uuid) /\ websocket_endpoint(t, call_uuid)
    \/ \E t \in TaskIds : websocket_accepted(t)
    \/ \E t \in TaskIds, audio_data \in DrainedAudio,
          responses \in [1..max_retries -> SttResponses] :
         websocket_transcribed(t, audio_data, responses)
    \/ \E t \in TaskIds : websocket_disconnect(t)
    \/ \E t \in TaskIds :
         websocket_generated(t, PrimaryReply.gemini, PrimaryReply.groq)
    \/ \E t \in TaskIds : websocket_synthesized(t, TRUE, TRUE)
    \/ \E audio_data \in AudioLengths,
          responses \in [1..max_retries -> SttResponses] :
         transcribe(audio_data, responses)

SpecTranscribe == InitStream /\ [][NextTranscribe]_vars

\* ------------------------------------------------------------------ claims
EventTasks == {t \in TaskIds : tasks[t].kind = "event"}
StreamTasks == {t \in TaskIds : tasks[t].kind = "ws"}

IsPrefix(s, t) == Len(s) <= Len(t) /\ SubSeq(t, 1, Len(s)) = s

\* The completion callbacks that got as far as finalizing handler h.
Finalizers(h) == {t \in EventTasks : tasks[t].h = h}

\* C1: under every interleaving of completion callbacks, no completion
\* callback raises, and every session is removed from the registry at most
\* once, its transcript persisted at most once and its Outcome computed at
\* most once.
C1_FinalizedOnce ==
    /\ \A t \in EventTasks : tasks[t].pc # "raised"
    /\ \A h \in DOMAIN handlers :
        /\ Cardinality({t \in Finalizers(h) : tasks[t].loc.removed}) <= 1
        /\ Cardinality({r \in call_sessions : r.handler = h}) <= 1
        /\ Cardinality({t \in Finalizers(h) :
                           tasks[t].loc.outcomes # << >>}) <= 1

\* C2: a 'completed' event for a call_uuid that is not registered does not
\* raise, returns the empty acknowledgement and leaves the registry, the
\* handlers, the greeting cache and the persisted records unchanged.
C2_UnknownCompletionIsNoOp ==
    [][\A t \in TaskIds :
         ( /\ tasks[t].kind = "idle" /\ tasks'[t].kind = "event"
           /\ tasks'[t].loc.status = "completed"
           /\ tasks'[t].call_uuid \notin DOMAIN call_data )
         => /\ tasks'[t].pc = "done"
            /\ tasks'[t].loc.response = "{}"
            /\ UNCHANGED <<call_data, handlers, greeting_cache,
                           call_sessions, borrower_updates>>]_vars

\* C2's case: a late duplicate, after an earlier completion of the same call
\* finished and removed the session.
C2_Witness ==
    \E t1, t2 \in EventTasks :
        /\ t1 < t2 /\ tasks[t1].call_uuid = tasks[t2].call_uuid
        /\ tasks[t1].pc = "done" /\ tasks[t1].loc.removed
        /\ tasks[t2].loc.status = "completed" /\ tasks[t2].h = 0
        /\ tasks[t2].pc = "done"

\* C3: a call_uuid leaves the registry only in the step that ends the
\* handling of a 'completed' event for it; no step of a streaming handler
\* (connect, disconnect, error, end) changes the registry or a handler's
\* active flag.
C3_RemovedOnlyByCompletion ==
    [][ /\ \A c \in CallIds :
            (c \in DOMAIN call_data /\ c \notin DOMAIN call_data')
            => \E t \in TaskIds :
                 /\ tasks[t].kind = "event" /\ tasks[t].call_uuid = c
                 /\ tasks[t].loc.status = "completed"
                 /\ tasks[t].pc # "done" /\ tasks'[t].pc = "done"
        /\ \A t \in TaskIds :
            (tasks'[t].kind = "ws" /\ tasks'[t] # tasks[t])
            => /\ call_data' = call_data
               /\ \A h \in DOMAIN handlers :
                    handlers'[h].is_active = handlers[h].is_active ]_vars

\* C3's case: a stream has disconnected and its session is still registered
\* and active.
C3_Witness ==
    \E t \in StreamTasks :
        /\ tasks[t].pc = "closed"
        /\ tasks[t].call_uuid \in DOMAIN call_data
        /\ call_data[tasks[t].call_uuid] = tasks[t].h
        /\ handlers[tasks[t].h].is_active

\* C5: the transcript registered for a call_uuid is append-only: in every
\* step that leaves the call_uuid registered, the transcript registered before
\* is a prefix of the transcript registered after.
C5_TranscriptAppendOnly ==
    [][\A c \in CallIds :
         (c \in DOMAIN call_data /\ c \in DOMAIN call_data')
         => IsPrefix(handlers[call_data[c]].conversation,
                     handlers'[call_data'[c]].conversation)]_vars

\* The transcript is the greeting followed by (User, AI) pairs in utterance
\* order, the last pair possibly still waiting for its reply.
TurnsOrdered(conversation) ==
    /\ Len(conversation) >= 1 =>
         /\ conversation[1].speaker = "AI"
         /\ conversation[1].text[1] = "greeting"
    /\ \A i \in 2..Len(conversation) :
         IF i % 2 = 0
         THEN /\ conversation[i].speaker = "User"
              /\ i > 2 => conversation[i - 2].text[2] < conversation[i].text[2]
         ELSE /\ conversation[i].speaker = "AI"
              /\ conversation[i].text = <<"reply", conversation[i - 1].text[2]>>

\* C4: in every reachable state the transcript of every session is the AI
\* greeting followed by (User, AI) pairs in utterance order: the reply to
\* utterance N is appended before any turn of utterance N+1.
C4_TurnsOrdered ==
    \A h \in DOMAIN handlers : TurnsOrdered(handlers[h].conversation)

\* The calls to the AI generation capability that are in flight: the analyses
\* of the bulk dispatch, the transcript analyses of completions and the reply
\* generations of the streams.
InFlightAI ==
    Cardinality({d \in DispatchIds : dispatch[d].pc \in {"groq", "gemini"}})
    + Cardinality({t \in EventTasks : tasks[t].pc = "analyze"})
    + Cardinality({t \in StreamTasks : tasks[t].pc = "generate"})

\* C6: at every moment at most 2 calls to the AI generation capability are in
\* flight, over the bulk dispatch, the completions and the streams.
C6_AICallsCapped == InFlightAI <= SemaphorePermits

\* The permits of the semaphore: free, held by an analysis, or handed to a
\* waiter that was woken and has not run yet.
Holders == {d \in DispatchIds : dispatch[d].pc \in {"groq", "gemini"}}
Granted == {i \in 1..Len(ai_semaphore.waiters) : ai_semaphore.waiters[i].done}

FailedAttempt(entry) == entry.result # "connected"

\* C8: a request makes between 1 and 3 attempts; an attempt is followed by
\* another only if it failed to connect, and the attempt that connects, with
\* or without a mid-call hangup, ends the request.
C8_AttemptsBounded ==
    \A d \in DispatchIds :
        LET log == dispatch[d].log
        IN /\ Len(log) <= max_attempts
           /\ dispatch[d].pc \in {"returned", "escalate", "raised"}
                => Len(log) >= 1
           /\ \A i \in 1..(Len(log) - 1) : FailedAttempt(log[i])
           /\ (Len(log) >= 1 /\ ~FailedAttempt(log[Len(log)]))
                => dispatch[d].pc = "returned"
           /\ dispatch[d].pc \in {"escalate", "raised"}
                => Len(log) = max_attempts

\* C8's case: a request returned after a failed attempt and a second one
\* that connected and was cut mid-call.
C8_Witness ==
    \E d \in DispatchIds :
        /\ dispatch[d].pc = "returned"
        /\ Len(dispatch[d].log) = 2
        /\ FailedAttempt(dispatch[d].log[1])
        /\ ~FailedAttempt(dispatch[d].log[2])
        /\ dispatch[d].result[1].mid_call

\* The attempts of request d were max_attempts and all failed to connect.
AllAttemptsFailed(d) ==
    /\ Len(dispatch[d].log) = max_attempts
    /\ \A i \in 1..max_attempts : FailedAttempt(dispatch[d].log[i])

EscalationWrites(d) ==
    {u \in borrower_updates : u.request = d /\ u.escalation}

C10_AllFailedIsNotSuccess ==
    /\ \A d \in DispatchIds :
         (dispatch[d].pc = "returned" /\ AllAttemptsFailed(d))
         => ~dispatch[d].result[1].success
    /\ bulk.status = "done"
         => bulk.failed_calls >=
              Cardinality({d \in 1..bulk.total_requests : AllAttemptsFailed(d)})

\* An outcome that escalates has its email to the manager.
EmailWhenManual(o) ==
    o.require_manual_process => o.email_to_manager_preview.present

\* C11: in every outcome of the Outcome Resolver, whatever the intent, the
\* committed date, the category and the mid-call flag, and in every outcome
\* of the retry loop (the outcomes of its attempts, the updates it writes to
\* the borrowers, the responses it returns), require_manual_process = True
\* implies that the email to the manager is present.
C11_EscalationHasEmail ==
    /\ \A i \in DOMAIN outcome : EmailWhenManual(outcome[i])
    /\ \A d \in DispatchIds :
         /\ \A i \in DOMAIN dispatch[d].last_res.outcomes :
              EmailWhenManual(dispatch[d].last_res.outcomes[i])
         /\ \A i \in DOMAIN dispatch[d].result :
              EmailWhenManual(dispatch[d].result[i])
    /\ \A u \in borrower_updates : EmailWhenManual(u.outcomes)

\* The resolver escalated, and the request returned an escalation: that of
\* its connected attempt, which was written to the borrower.
C11_Witness ==
    /\ outcome # << >> /\ outcome[1].require_manual_process
    /\ \E d \in DispatchIds :
         /\ dispatch[d].result # << >>
         /\ dispatch[d].result[1].require_manual_process
         /\ dispatch[d].result[1].status = "completed"
         /\ \E u \in borrower_updates : u.outcomes.require_manual_process

\* The escalation intents of the specification, as the analysis spells them.
ClaimedEscalationIntents ==
    {"Paid", "Dispute", "No Response", "Abusive Language",
     "Threatening Language", "Stop Calling"}

\* C12: for each escalation intent (Paid, Dispute, No Response, Abusive,
\* Threatening, Stop Calling), whatever the committed date, the category and
\* the mid-call flag, the resolver sets require_manual_process and drafts an
\* email to "Area Manager" whose subject and body name the borrower and are
\* the template of that intent and of no other escalation intent.
C12_EscalationIntentsEscalate ==
    \A i \in DOMAIN outcome :
        args.intent \in ClaimedEscalationIntents =>
            LET email == outcome[i].email_to_manager_preview
            IN /\ outcome[i].require_manual_process
               /\ email.present
               /\ email.to = "Area Manager"
               /\ \E k \in DOMAIN email.subject :
                    email.subject[k] = args.borrower_name
               /\ \E k \in DOMAIN email.body :
                    email.body[k] = args.borrower_name
               /\ \A other \in ClaimedEscalationIntents \ {args.intent} :
                    LET draft == EscalationEmail(other, args.borrower_name,
                                                 args.borrower_id)
                    IN email.subject # draft.subject /\ email.body # draft.body

\* An escalation intent was resolved for a mid-call hangup with a committed
\* date.
C12_Witness ==
    /\ outcome # << >>
    /\ args.intent = "Stop Calling"
    /\ args.is_mid_call
    /\ args.payment_date = "2024-03-01"
    /\ outcome[1].email_to_manager_preview.subject = <<"DNC Request: ", "Asha">>

\* The spellings of "no committed date".
NoCommittedDate == {None, "", "null", "NULL"}

\* C13: for the intents Will Pay and Needs Extension the resolver never
\* escalates (require_manual_process False, no email to the manager),
\* whatever the category and the date; and when a committed date is given and
\* the call is no mid-call hangup, the follow-up date is that date, with the
\* frequency "1 call (Verify)".
C13_CommitmentsDoNotEscalate ==
    \A i \in DOMAIN outcome :
        args.intent \in {"Will Pay", "Needs Extension"} =>
            /\ ~outcome[i].require_manual_process
            /\ ~outcome[i].email_to_manager_preview.present
            /\ (args.payment_date \notin NoCommittedDate /\ ~args.is_mid_call) =>
                 /\ outcome[i].follow_up_date.kind = "text"
                 /\ outcome[i].follow_up_date.text = args.payment_date
                 /\ outcome[i].call_frequency = "1 call (Verify)"

\* Will Pay was resolved with a committed date, for an overdue borrower.
C13_Witness ==
    /\ outcome # << >>
    /\ args.intent = "Will Pay"
    /\ args.payment_date = "2024-03-01"
    /\ args.category = "Overdue"
    /\ ~args.is_mid_call
    /\ outcome[1].follow_up_date = DateText("2024-03-01")

\* Monday to Friday.
IsWeekday(d) == d % 7 \in 0..4

\* d is the earliest weekday that is not before `from`.
EarliestWeekdayFrom(d, from) ==
    /\ d >= from
    /\ IsWeekday(d)
    /\ \A e \in from..(d - 1) : ~IsWeekday(e)

\* C14: for a mid-call hangup, whatever the intent, the committed date and
\* the category, the follow-up date is the earliest weekday strictly after
\* the evaluation day (Saturday and Sunday skipped), the frequency is
\* "1 call (Retry)", and a committed date is not taken as the follow-up.
C14_MidCallRetriesNextBusinessDay ==
    \A i \in DOMAIN outcome :
        args.is_mid_call =>
            /\ outcome[i].follow_up_date.kind = "dates"
            /\ Len(outcome[i].follow_up_date.days) = 1
            /\ EarliestWeekdayFrom(outcome[i].follow_up_date.days[1],
                                   args.today + 1)
            /\ outcome[i].call_frequency = "1 call (Retry)"

\* A mid-call hangup with a committed date was resolved on a Friday: the
\* follow-up is the Monday after.
C14_Witness ==
    /\ outcome # << >>
    /\ args.is_mid_call
    /\ args.payment_date = "2024-03-01"
    /\ args.today = 4
    /\ outcome[1].follow_up_date = DateList(<<7>>)

\* C15: for a mid-call hangup the summary of the outcome flags the abrupt
\* hangup, for every intent: the escalation intents, Will Pay, Needs
\* Extension and the intents the resolver does not know.
C15_MidCallSummaryFlagsHangup ==
    \A i \in DOMAIN outcome :
        args.is_mid_call => outcome[i].next_step_summary = MidCallSummary

\* C16: for the category Overdue and any evaluation day, the schedule is
\* computed and has exactly 7 dates, all weekdays, strictly increasing: the 7
\* earliest weekdays strictly after the evaluation day (from Monday
\* 2024-01-01, day 0, it starts at 2024-01-02, day 1).
C16_OverdueSevenBusinessDays ==
    /\ (schedule = << >> /\ args.category = "Overdue") => ENABLED calculate
    /\ \A i \in DOMAIN schedule :
        args.category = "Overdue" =>
            LET dates == schedule[i].dates
            IN /\ Len(dates) = 7
               /\ \A k \in 1..Len(dates) : IsWeekday(dates[k])
               /\ \A k \in 1..(Len(dates) - 1) : dates[k] < dates[k + 1]
               /\ dates[1] > args.today
               /\ \A e \in (args.today + 1)..dates[Len(dates)] :
                    IsWeekday(e) => \E k \in 1..Len(dates) : dates[k] = e
               /\ args.today = 0 => dates[1] = 1

\* The schedule of an overdue borrower was computed on a Friday: it spans
\* two weekends.
C16_Witness ==
    /\ schedule # << >>
    /\ args.category = "Overdue"
    /\ args.today = 4
    /\ schedule[1].dates = <<7, 8, 9, 10, 11, 14, 15>>

\* C17: for the category Consistent and any evaluation day, the schedule is
\* exactly 1 date, a weekday, no earlier than 7 calendar days after the
\* evaluation day (from Monday 2024-01-01, day 0, no earlier than
\* 2024-01-08, day 7).
C17_ConsistentOneDateAWeekOut ==
    \A i \in DOMAIN schedule :
        args.category = "Consistent" =>
            LET dates == schedule[i].dates
            IN /\ Len(dates) = 1
               /\ IsWeekday(dates[1])
               /\ dates[1] >= args.today + 7

\* The schedule of a consistent borrower was computed on Monday 2024-01-01.
C17_Witness ==
    /\ schedule # << >>
    /\ args.category = "Consistent"
    /\ args.today = 0
    /\ schedule[1].dates = <<7>>

\* The categories of the default branch of the schedule.
DefaultCategories == {"Consistent", "", None}

\* C18, as claimed: for the default (Consistent) category and any evaluation
\* day, the single follow-up date is the earliest weekday that is at least 6
\* calendar days after the evaluation day.
C18_EarliestWeekdayFromSixDays ==
    \A i \in DOMAIN schedule :
        args.category \in DefaultCategories =>
            /\ Len(schedule[i].dates) = 1
            /\ EarliestWeekdayFrom(schedule[i].dates[1], args.today + 6)

\* C18, amended: for the default (Consistent) category and any evaluation
\* day, the single follow-up date is the earliest weekday that is at least 7
\* calendar days after the evaluation day.
C18_EarliestWeekdayFromSevenDays ==
    \A i \in DOMAIN schedule :
        args.category \in DefaultCategories =>
            /\ Len(schedule[i].dates) = 1
            /\ EarliestWeekdayFrom(schedule[i].dates[1], args.today + 7)

\* The default schedule was computed on a Tuesday: the Monday six days later
\* is a weekday, and the date is the Tuesday seven days later.
C18_Witness ==
    /\ schedule # << >>
    /\ args.category \in DefaultCategories
    /\ args.today = 1
    /\ IsWeekday(args.today + 6)
    /\ schedule[1].dates = <<8>>

\* Every chunk heard so far was below the silence threshold.
NoiseFloorOnly ==
    \A k \in DOMAIN heard : heard[k].chunk.level < silence_threshold

\* C20: for a stream of audio chunks, of any lengths and arrival times, in
\* which the amplitude of every chunk is below the silence threshold, the
\* segmenter never signals that an utterance is ready.
C20_NoiseNeverSignals ==
    NoiseFloorOnly => \A k \in DOMAIN heard : ~heard[k].ready

\* More than ten seconds of audio below the threshold were heard, with more
\* than the configured silence between two chunks.
C20_Witness ==
    /\ NoiseFloorOnly
    /\ Len(heard) >= 2
    /\ audio_buffer.buffer > BytesPerMs * max_buffer_duration
    /\ clock >= silence_duration
    /\ \E k \in DOMAIN heard : heard[k].chunk.level = silence_threshold - 1

\* The chunk k opens an utterance: nothing was buffered before it.
OpensUtterance(k) == k = 1 \/ heard[k - 1].ready

\* From the chunk k on, the stream is 0.6 s of speech above the threshold,
\* then two chunks of audio below it that span exactly silence_duration,
\* the whole shorter than the 10 s limit.
SpeechThenSilence(k) ==
    /\ k + 2 <= Len(heard)
    /\ OpensUtterance(k)
    /\ heard[k].chunk.len = BytesPerMs * min_speech_duration
    /\ heard[k].chunk.level >= silence_threshold
    /\ \A j \in {k + 1, k + 2} :
         heard[j].chunk.level < silence_threshold /\ heard[j].chunk.len > 0
    /\ heard[k + 2].at - heard[k + 1].at = silence_duration
    /\ heard[k].chunk.len + heard[k + 1].chunk.len + heard[k + 2].chunk.len
         <= BytesPerMs * max_buffer_duration

\* C21: given 0.6 s of speech above the threshold followed by chunks below
\* it that span exactly the configured silence duration, the caller draining
\* on the signal, the segmenter signals exactly once, at the last of these
\* chunks; get_audio then returns the whole buffered audio, and afterwards
\* it returns the empty audio until a new chunk is added.
C21_SpeechThenSilenceSignalsOnce ==
    /\ \A k \in DOMAIN heard :
         SpeechThenSilence(k) =>
            /\ ~heard[k].ready /\ ~heard[k + 1].ready /\ heard[k + 2].ready
            /\ heard[k + 2].audio_data =
                 <<heard[k].chunk.len + heard[k + 1].chunk.len
                   + heard[k + 2].chunk.len>>
    /\ (heard # << >> /\ heard[Len(heard)].ready) =>
         get_audio(audio_buffer).audio_data = 0

\* The stream of the claim was heard from the start, and its audio drained.
C21_Witness ==
    /\ Len(heard) = 3
    /\ SpeechThenSilence(1)
    /\ heard[3].ready
    /\ heard[3].audio_data = <<19200 + 641 + 641>>
    /\ audio_buffer = NewAudioBuffer

C23_UnknownCallRefused ==
    [][\A t \in TaskIds :
         /\ (tasks[t].kind = "idle" /\ tasks'[t].kind = "ws"
                /\ tasks'[t].call_uuid \notin DOMAIN call_data) =>
               /\ tasks'[t].pc = "refused"
               /\ tasks'[t].loc.sent = << >>
               /\ UNCHANGED <<call_data, handlers, greeting_cache, call_sessions>>
         /\ (tasks[t].kind = "ws" /\ tasks[t].pc = "refused") =>
               tasks'[t] = tasks[t]
    ]_vars

\* A stream was refused for a call whose session was persisted and removed.
C23_Witness ==
    \E t \in TaskIds :
        /\ tasks[t].kind = "ws" /\ tasks[t].pc = "refused"
        /\ tasks[t].call_uuid \notin DOMAIN call_data
        /\ \E record \in call_sessions : record.call_uuid = tasks[t].call_uuid

\* C24: an event callback whose status is not 'completed', or that carries no
\* status at all, is acknowledged with an empty object and does nothing more;
\* the registry, every session (its active flag, transcript and language),
\* the greeting cache and the persisted records are as before.
C24_OtherEventsIgnored ==
    [][\A t \in TaskIds :
         /\ (tasks[t].kind = "idle" /\ tasks'[t].kind = "event"
                /\ tasks'[t].loc.status # "completed") =>
               /\ tasks'[t].pc = "done"
               /\ tasks'[t].loc.response = "{}"
               /\ UNCHANGED <<call_data, handlers, greeting_cache,
                              call_sessions, borrower_updates>>
         /\ (tasks[t].kind = "event" /\ tasks[t].pc = "done"
                /\ tasks[t].loc.status # "completed") =>
               tasks'[t] = tasks[t]
    ]_vars

\* An 'answered' event was acknowledged while the session of its call is
\* registered and active and its greeting is cached.
C24_Witness ==
    \E t \in TaskIds :
        /\ tasks[t].kind = "event" /\ tasks[t].pc = "done"
        /\ tasks[t].loc.status = "answered"
        /\ tasks[t].call_uuid \in DOMAIN call_data
        /\ handlers[call_data[tasks[t].call_uuid]].is_active
        /\ tasks[t].call_uuid \in DOMAIN greeting_cache

\* C25: whatever fails in a turn, the stream goes on.  An utterance that is
\* not transcribed leaves the handler receiving; a transcribed one always
\* gets an AI turn, the reply of the model or the fallback phrase of the
\* language; and after synthesis, with audio or without, the handler
\* receives again.  Only the end of the connection ends the loop.
C25_TurnFailuresNotFatal ==
    [][\A t \in TaskIds :
         (tasks[t].kind = "ws" /\ tasks'[t] # tasks[t]) =>
           /\ (tasks[t].pc = "receive" /\ tasks'[t].loc.u # tasks[t].loc.u) =>
                 tasks'[t].pc = IF tasks'[t].loc.script = None
                                THEN "receive" ELSE "generate"
           /\ tasks[t].pc = "generate" =>
                 LET conversation == handlers'[tasks[t].h].conversation
                     turn == conversation[Len(conversation)]
                     call == tasks[t].loc.generate[1]
                 IN /\ tasks'[t].pc = "synthesize"
                    /\ turn.speaker = "AI"
                    /\ turn.text \in {ReplyText("gemini", call.user_text),
                                      ReplyText("groq", call.user_text),
                                      Fallback(call.language)}
           /\ tasks[t].pc = "synthesize" => tasks'[t].pc = "receive"
           /\ tasks'[t].pc \in {"closed", "raised"} => tasks[t].pc \in {"receive", "accept"}
    ]_vars

\* The first utterance got the fallback phrase and no audio; the second one
\* was received and transcribed on the same stream.
C25_Witness ==
    \E t \in TaskIds :
        /\ tasks[t].kind = "ws" /\ tasks[t].pc = "generate"
        /\ tasks[t].loc.u = 2
        /\ tasks[t].loc.sent = << >>
        /\ LET conversation == handlers[tasks[t].h].conversation
               n == Len(conversation)
           IN /\ n >= 3
              /\ conversation[n].speaker = "User"
              /\ conversation[n - 1].speaker = "AI"
              /\ conversation[n - 1].text = Fallback(conversation[n - 1].language)
              /\ conversation[n - 2].speaker = "User"

InTurn(t) ==
    tasks[t].kind = "ws" /\ tasks[t].pc \in {"generate", "synthesize"}

\* C27: while the reply generation or the synthesis of an utterance is in
\* progress, the handler of the same stream can receive a chunk that arrives
\* and add it to its AudioBuffer.
C27_ReceivesDuringTurn ==
    \A t \in TaskIds : InTurn(t) => ENABLED websocket_chunk(t)

\* C28: once a completion event has marked a session inactive, no turn is
\* appended to its transcript and its language does not change, and so the
\* transcript persisted for a call is the one that was analysed for its
\* outcome, also when a stream of the call is in a turn at that moment.
C28_InactiveSessionFrozen ==
    [][/\ \A h \in DOMAIN handlers :
            ~handlers[h].is_active =>
                /\ handlers'[h].conversation = handlers[h].conversation
                /\ handlers'[h].current_language = handlers[h].current_language
       /\ \A record \in call_sessions' :
            record.conversation = tasks'[record.task].loc.analysed
    ]_vars

\* An answer callback of the call is in progress: it registered the session
\* and awaits the synthesis of the greeting.
AnswerInProgress(call_uuid) ==
    \E t \in TaskIds :
        /\ tasks[t].kind = "answer" /\ tasks[t].call_uuid = call_uuid
        /\ tasks[t].pc = "synthesize"

\* C29: when no answer callback of a callId is in progress, a greeting is
\* cached for the callId only if a session is registered for it; no cached
\* greeting outlives the removal of its session.
C29_GreetingOnlyWithSession ==
    \A call_uuid \in DOMAIN greeting_cache :
        ~AnswerInProgress(call_uuid) => call_uuid \in DOMAIN call_data

\* The errors of the primary that are rate limits.
RateLimitErrors == {"429 Too Many Requests", "RESOURCE_EXHAUSTED"}

\* C30: reply generation returns the reply of the primary when the primary
\* answers; when the primary fails with a rate limit and the secondary
\* answers, it has called the secondary with the persona and history of the
\* primary call and returns the reply of the secondary; in every other case
\* it returns the fallback phrase of the language it was called with.
C30_ReplyFollowsCapabilityChain ==
    \A t \in TaskIds :
        (tasks[t].kind = "ws" /\ tasks[t].loc.reply # << >>) =>
            LET reply == tasks[t].loc.reply[1]
                call == tasks[t].loc.generate[1]
            IN IF reply.gemini = "ok"
               THEN reply.text = ReplyText("gemini", call.user_text)
               ELSE IF reply.gemini \in RateLimitErrors /\ reply.groq = "ok"
               THEN /\ Len(reply.calls) = 2
                    /\ reply.calls[2].to = "groq"
                    /\ reply.calls[2].persona = reply.calls[1].persona
                    /\ reply.calls[2].conv_history = reply.calls[1].conv_history
                    /\ reply.text = ReplyText("groq", call.user_text)
               ELSE reply.text = Fallback(call.language)

\* C31: transcribe_sarvam makes no request for audio shorter than 2000
\* bytes, and at most two requests otherwise; and when the receive loop gets
\* no transcript for an utterance, it appends no turn, leaves the language
\* and the switch log of the session as they are, sends no audio and
\* receives again.
C31_NoTranscriptNoTurn ==
    [][/\ stt' # << >> =>
            /\ stt'[1].audio_data < 2000 =>
                  stt'[1].requests = 0 /\ stt'[1].script = None
            /\ stt'[1].requests <= 2
            /\ stt'[1].script = None =>
                  stt'[1].requests \in {0, 2}
       /\ \A t \in TaskIds :
            (tasks[t].kind = "ws" /\ tasks[t].pc = "receive"
               /\ tasks'[t].loc.u # tasks[t].loc.u
               /\ stt'[1].script = None) =>
                 /\ handlers' = handlers
                 /\ tasks'[t].loc.sent = tasks[t].loc.sent
                 /\ tasks'[t].pc = "receive"
    ]_vars

\* An utterance of a stream was given up after two requests: the transcript
\* of the session has the greeting only.
C31_Witness ==
    /\ stt # << >> /\ stt[1].requests = 2 /\ stt[1].script = None
    /\ \E t \in TaskIds :
         /\ tasks[t].kind = "ws" /\ tasks[t].pc = "receive"
         /\ tasks[t].loc.u = 1 /\ tasks[t].loc.script = None
         /\ Len(handlers[tasks[t].h].conversation) = 1

\* C32: when the synthesis of a reply fails, no audio is sent for the turn,
\* and the transcript keeps the User turn of the utterance and, after it,
\* the AI turn of the reply: the last two turns that were appended.
C32_FailedSynthesisKeepsTurns ==
    [][\A t \in TaskIds :
         (tasks[t].kind = "ws" /\ tasks[t].pc = "synthesize"
            /\ tasks'[t].pc # "synthesize"
            /\ tasks'[t].loc.audio_response = << >>) =>
              LET before == handlers[tasks[t].h].conversation
                  after == handlers'[tasks[t].h].conversation
                  call == tasks[t].loc.synthesize[1]
                  n == Len(after)
              IN /\ tasks'[t].loc.sent = tasks[t].loc.sent
                 /\ after = before
                 /\ n >= 2
                 /\ \E i \in 1..n, j \in 1..n :
                      /\ i < j
                      /\ after[i].speaker = "User"
                      /\ after[i].text = <<"utterance", tasks[t].loc.u,
                                           tasks[t].loc.script>>
                      /\ after[j].speaker = "AI"
                      /\ after[j].text = call.text
    ]_vars

\* The synthesis of a reply failed: the stream sent nothing and receives
\* again, and the transcript ends with the User turn and the AI turn.
C32_Witness ==
    \E t \in TaskIds :
        /\ tasks[t].kind = "ws" /\ tasks[t].pc = "receive"
        /\ tasks[t].loc.u = 1 /\ tasks[t].loc.script # None
        /\ tasks[t].loc.audio_response = << >>
        /\ tasks[t].loc.sent = << >>
        /\ LET conversation == handlers[tasks[t].h].conversation
               n == Len(conversation)
           IN /\ n >= 2
              /\ conversation[n - 1].speaker = "User"
              /\ conversation[n].speaker = "AI"

\* C33: an answer callback registers under the callId a new active session
\* whose transcript is the AI greeting; the return of the greeting synthesis
\* caches the audio under the callId or, when it failed, caches nothing, and
\* leaves the session registered either way; a stream that connects for a
\* registered callId is accepted, is sent the cached greeting first if
\* there is one, and whatever it sends later comes after it.
C33_GreetingFirst ==
    [][\A t \in TaskIds :
         /\ (tasks[t].kind = "idle" /\ tasks'[t].kind = "answer") =>
               LET call_uuid == tasks'[t].call_uuid
                   language == tasks'[t].loc.preferred_language
               IN /\ call_uuid \in DOMAIN call_data'
                  /\ handlers'[call_data'[call_uuid]].is_active
                  /\ handlers'[call_data'[call_uuid]].conversation =
                       <<[speaker |-> "AI", text |-> Greeting(language),
                          language |-> language]>>
         /\ (tasks[t].kind = "answer" /\ tasks[t].pc = "synthesize"
                /\ tasks'[t].pc # "synthesize") =>
               LET call_uuid == tasks[t].call_uuid
                   language == tasks[t].loc.preferred_language
               IN /\ call_data' = call_data /\ handlers' = handlers
                  /\ \/ greeting_cache' = greeting_cache
                     \/ greeting_cache' =
                          DictSet(greeting_cache, call_uuid,
                                  Audio(Greeting(language), language))
         /\ (tasks[t].kind = "idle" /\ tasks'[t].kind = "ws"
                /\ tasks'[t].call_uuid \in DOMAIN call_data) =>
               tasks'[t].pc = "accept"
         /\ (tasks[t].kind = "ws" /\ tasks[t].pc = "accept"
                /\ tasks'[t].pc = "receive") =>
               tasks'[t].loc.sent =
                   IF tasks[t].call_uuid \in DOMAIN greeting_cache
                   THEN <<greeting_cache[tasks[t].call_uuid]>> ELSE << >>
         /\ (tasks[t].kind = "ws" /\ tasks[t].pc \in {"receive", "generate", "synthesize"}) =>
               /\ Len(tasks'[t].loc.sent) >= Len(tasks[t].loc.sent)
               /\ SubSeq(tasks'[t].loc.sent, 1, Len(tasks[t].loc.sent)) =
                    tasks[t].loc.sent
    ]_vars

\* A stream was sent the greeting and then the audio of a reply.
C33_Witness ==
    \E t \in TaskIds :
        /\ tasks[t].kind = "ws"
        /\ Len(tasks[t].loc.sent) = 2
        /\ tasks[t].loc.sent[1] = Audio(Greeting("en-IN"), "en-IN")
        /\ tasks[t].loc.sent[2] # tasks[t].loc.sent[1]

\* The session registered for a callId and its cached greeting, if any.
Keyed(registry, sessions, cache, call_uuid) ==
    [session |-> IF call_uuid \in DOMAIN registry
                 THEN <<sessions[registry[call_uuid]]>> ELSE << >>,
     greeting |-> IF call_uuid \in DOMAIN cache
                  THEN <<cache[call_uuid]>> ELSE << >>]

\* C34: a step of an answer callback, a streaming handler or a completion
\* callback of callId A leaves what is registered and cached for every
\* other callId B as it is: the session of B (transcript, language, switch
\* log, active flag) and the greeting of B.
C34_MutationScopedToKey ==
    [][\A t \in TaskIds :
         tasks'[t] # tasks[t] =>
           \A B \in CallIds \ {tasks'[t].call_uuid} :
              Keyed(call_data', handlers', greeting_cache', B) =
                Keyed(call_data, handlers, greeting_cache, B)
    ]_vars

\* The session of c1 was completed and removed while c2 is registered with
\* its greeting cached.
C34_Witness ==
    /\ "c2" \in DOMAIN call_data /\ "c2" \in DOMAIN greeting_cache
    /\ "c1" \notin DOMAIN call_data
    /\ \E t \in TaskIds :
         /\ tasks[t].kind = "event" /\ tasks[t].call_uuid = "c1"
         /\ tasks[t].pc = "done" /\ tasks[t].loc.removed

\* The chunks heard since the last drain, up to the chunk k.
RECURSIVE SinceDrain(_)
SinceDrain(k) ==
    IF OpensUtterance(k) THEN {k} ELSE SinceDrain(k - 1) \cup {k}

\* The bytes buffered when the chunk k has been added.
RECURSIVE BytesOf(_)
BytesOf(ks) ==
    IF ks = {} THEN 0
    ELSE LET k == CHOOSE i \in ks : TRUE
         IN heard[k].chunk.len + BytesOf(ks \ {k})

\* Speech was detected since the last drain, the chunk k included.
SpeechSinceDrain(k) ==
    \E i \in SinceDrain(k) : rms(heard[i].chunk) >= silence_threshold

\* C35: whenever the buffer exceeds the hard cap (10 s of audio, 320000
\* bytes) and speech was detected since the last drain, add_chunk signals
\* that an utterance is ready, whether or not a silence was observed; and
\* every signal, by either path, occurs only when speech was detected and
\* the buffer exceeds the 0.6 s floor.
C35_HardCapForcesSignal ==
    \A k \in DOMAIN heard :
        /\ (BytesOf(SinceDrain(k)) > BytesPerMs * max_buffer_duration
              /\ SpeechSinceDrain(k)) => heard[k].ready
        /\ heard[k].ready =>
              /\ SpeechSinceDrain(k)
              /\ BytesOf(SinceDrain(k)) > BytesPerMs * min_speech_duration

\* Two chunks of speech with no time between them, no chunk below the
\* threshold: the second one takes the buffer over the cap and signals.
C35_Witness ==
    /\ Len(heard) = 2
    /\ \A k \in {1, 2} : rms(heard[k].chunk) >= silence_threshold
    /\ clock = 0
    /\ ~heard[1].ready /\ heard[2].ready
    /\ heard[2].audio_data = <<320000 + 19200>>

\* C36: when the buffer reaches the hard cap and no speech was detected, no
\* utterance is signalled and the buffered audio is discarded, so that, the
\* caller draining on every signal, the buffered byte count never exceeds
\* the hard cap plus one chunk.
C36_QuietAudioDiscardedAtCap ==
    /\ \A k \in DOMAIN heard :
         (BytesOf(SinceDrain(k)) >= BytesPerMs * max_buffer_duration
            /\ ~SpeechSinceDrain(k)) => ~heard[k].ready
    /\ heard # << >> =>
         audio_buffer.buffer <=
             BytesPerMs * max_buffer_duration + heard[Len(heard)].chunk.len

\* The number of follow-up dates of a category: 3 when it matches
\* Inconsistent, 7 when it matches Overdue, 1 for every other one.
DatesOfCategory(category) ==
    CASE category \in {"Inconsistent"}        -> 3
      [] category \in {"Overdue", "OVERDUE "} -> 7
      [] OTHER                                -> 1

\* `days` are the earliest Len(days) weekdays strictly after `today`.
EarliestWeekdaysAfter(days, today) ==
    /\ \A k \in 1..(Len(days) - 1) : days[k] < days[k + 1]
    /\ \A k \in DOMAIN days : days[k] > today
    /\ \A e \in (today + 1)..days[Len(days)] :
         IsWeekday(e) => \E k \in DOMAIN days : days[k] = e

\* C37: when the call is not a mid-call hangup and no committed date was
\* extracted (absent, empty or the string "null"), the follow-up dates come
\* from the category alone: 3 dates for a category matching Inconsistent and
\* 7 for Overdue, the earliest weekdays strictly after the evaluation day,
\* and exactly 1 date for every other category (Consistent, missing or not
\* recognised); every date is a weekday.
C37_DatesFromCategory ==
    \A i \in DOMAIN outcome :
        (~args.is_mid_call /\ args.payment_date \in {None, "", "null"}) =>
            LET follow_up == outcome[i].follow_up_date
                n == DatesOfCategory(args.category)
            IN /\ follow_up.kind = "dates"
               /\ Len(follow_up.days) = n
               /\ \A k \in DOMAIN follow_up.days : IsWeekday(follow_up.days[k])
               /\ n > 1 => EarliestWeekdaysAfter(follow_up.days, args.today)

\* An inconsistent borrower whose analysis gave the date "null" was resolved
\* on a Friday: the three dates are Monday to Wednesday of the next week.
C37_Witness ==
    /\ outcome # << >>
    /\ ~args.is_mid_call
    /\ args.payment_date = "null"
    /\ args.category = "Inconsistent"
    /\ args.today = 4
    /\ outcome[1].follow_up_date = DateList(<<7, 8, 9>>)

\* C38: in real mode the outbound call placed for a request, single or bulk,
\* is addressed to the destination number of the request, with its language
\* and its borrower, and carries the id of the authenticated user to the
\* answer callback, so that the session created on answer has the user_id
\* of the dispatcher.
C38_OutboundCallCarriesRequest ==
    \A k \in DOMAIN outbound :
        LET placed == outbound[k]
        IN /\ \A j \in DOMAIN placed.create_call :
                LET request == placed.create_call[j]
                IN /\ request.to = StripPlus(placed.to_number)
                   /\ request.answer_url.preferred_language = placed.language
                   /\ placed.borrower_id # None =>
                        /\ "borrower_id" \in DOMAIN request.answer_url
                        /\ request.answer_url.borrower_id = placed.borrower_id
                   /\ request.answer_url.user_id = placed.user_id
           /\ \A call_uuid \in DOMAIN call_data :
                handlers[call_data[call_uuid]].user_id = placed.user_id

\* The completion callback t is finalizing a session: it is suspended in
\* save_transcript.
Finalizing(t) ==
    tasks[t].kind = "event" /\ tasks[t].pc \in {"analyze", "persist", "update"}

\* C39: the handling of a 'completed' event of a registered call always
\* ends with the session and its cached greeting removed, also when the
\* analysis fails, the borrower is not found or a write to the store fails:
\* no failure leaves the completion callback.
C39_CompletionAlwaysCleansUp ==
    [][\A t \in TaskIds :
         (Finalizing(t) /\ tasks'[t].pc \notin {"analyze", "persist", "update"})
         => /\ tasks'[t].pc = "done"
            /\ tasks'[t].call_uuid \notin DOMAIN call_data'
            /\ tasks'[t].call_uuid \notin DOMAIN greeting_cache'
    ]_vars

\* The switch log of a session is a chain from its preferred language to
\* its current language.
IsChain(handler) ==
    LET log == handler.language_history
    IN /\ \A k \in DOMAIN log : log[k].from # log[k].to
       /\ \A k \in 1..(Len(log) - 1) : log[k].to = log[k + 1].from
       /\ IF log = << >>
          THEN handler.current_language = handler.preferred_language
          ELSE /\ log[1].from = handler.preferred_language
               /\ log[Len(log)].to = handler.current_language

\* C40: in every reachable state of a session the language-switch log is a
\* chain: each record has from different from to, the first from is the
\* preferred language, each to is the next from, and the last to is the
\* current language (the preferred language when the log is empty).
C40_SwitchLogIsChain ==
    \A h \in DOMAIN handlers : IsChain(handlers[h])

\* A session in English switched to Hindi and back: two records, and the
\* current language is the preferred one again.
C40_Witness ==
    \E h \in DOMAIN handlers :
        /\ handlers[h].preferred_language = "en-IN"
        /\ handlers[h].current_language = "en-IN"
        /\ handlers[h].language_history =
             <<[from |-> "en-IN", to |-> "hi-IN"],
               [from |-> "hi-IN", to |-> "en-IN"]>>

====
